---- MODULE Spec2Model ----
(***************************************************************************)
(* Model of the merkledb trieView (src/unnamed/part_001): the layered view *)
(* over a merkleDB, its pending value changes (changes.values), its pending *)
(* node edits (childrenChanges), node-ID calculation, reads, proofs, commit *)
(* and invalidation.                                                        *)
(*                                                                          *)
(* Keys are token sequences.  The model fixes tokenSize = 8 (one token per  *)
(* byte), so a byte key is its own token sequence and every length the code *)
(* counts in bits is counted here in tokens (code: + t.tokenSize, here: +1).*)
(* A node id is the injective image of what is hashed: <<key, value,        *)
(* children>>; ids.Empty is the empty tuple.                                *)
(*                                                                          *)
(* A *child is a heap object.  Every entry the view code stores is a fresh  *)
(* &child{...}; the only sharing is maps.Clone (shallow), which makes the   *)
(* entry at one (node key, token) of a view the same object as the entry at *)
(* the same (node key, token) of an ancestor.  The field ptr (the view that *)
(* allocated the object) therefore identifies the object at its position.   *)
(***************************************************************************)
EXTENDS Integers, Sequences, FiniteSets, TLC

\* ----------------------------------------------------------------- bounds
MaxViews == 4
MaxOps == 1
MaxTrieViews == 2
MaxTrieOps == 3
MaxBatchLen == 2
MaxReadViews == 3
NumTokens == 2
MaxKeyLen == 2
NumValues == 1
NumCPU == 2
NumCallers == 3
MaxOnceViews == 2
MaxHashViews == 2
MaxHashOps == 2
MaxOthers == 1
NumCommitters == 2
MaxCommitViews == 3
MaxLiveViews == 3    \* views of SpecLive
MaxLiveOps == 2      \* batch operations handed to the views of SpecLive
NumLiveCallers == 2  \* threads calling calculateNodeIDs in SpecLive
MaxLockViews == 3    \* views of SpecLock
MaxLockOps == 1      \* batch operations handed to the views of SpecLock
NumLockers == 2      \* threads of SpecLock
PebbleBytes == {0, 1, 255} \* the bytes of the keys of SpecPebble
MaxPebbleKeyLen == 2 \* bytes of a key of SpecPebble
MaxPebbleOps == 4    \* method calls on the Database of SpecPebble
PathBytes == {0, 1, 16, 17} \* the bytes of the paths of SpecPaths
MaxNibbles == 3      \* nibbles of a path of SpecPaths

Views == 1 .. MaxViews
DB == 0
Tokens == 0 .. (NumTokens - 1)
Values == 1 .. NumValues

RECURSIVE KeysOfLen(_)
KeysOfLen(n) ==
  IF n = 0 THEN {<<>>}
  ELSE {Append(k, t) : k \in KeysOfLen(n - 1), t \in Tokens}

\* the keys handed to the views: every key of at most MaxKeyLen tokens that
\* branches at its last token only
Keys ==
  {k \in UNION {KeysOfLen(n) : n \in 0 .. MaxKeyLen} :
     \A i \in 1 .. (Len(k) - 1) : k[i] = 0}

\* ----------------------------------------------------------------- errors
NoErr == "nil"
ErrCommitted == "ErrCommitted"
ErrInvalid == "ErrInvalid"
ErrGetPathToFailure == "ErrGetPathToFailure"
ErrStartAfterEnd == "ErrStartAfterEnd"
ErrNoValidRoot == "ErrNoValidRoot"
ErrParentNotDatabase == "ErrParentNotDatabase"
ErrNodesAlreadyCalculated == "ErrNodesAlreadyCalculated"
ErrInvalidMaxLength == "ErrInvalidMaxLength"
ErrNotFound == "ErrNotFound"

\* ------------------------------------------------------- maybe.Maybe[[]byte]
Nothing == <<>>
Some(v) == <<v>>
HasValue(m) == m # Nothing

\* ------------------------------------------------------------------- Key
emptyKey == <<>>
rootKey == <<>>
Take(key, n) == SubSeq(key, 1, n)
Skip(key, n) == SubSeq(key, n + 1, Len(key))
Token(key, i) == key[i + 1]
Extend(key, tok, suffix) == key \o <<tok>> \o suffix

\* key[offset : offset+len(sub)] = sub
iteratedHasPrefix(key, sub, offset) ==
  /\ Len(key) >= offset + Len(sub)
  /\ \A i \in 1 .. Len(sub) : key[offset + i] = sub[i]

KeyLess(a, b) ==
  \/ /\ Len(a) < Len(b)
     /\ a = Take(b, Len(a))
  \/ \E i \in 1 .. Len(a) :
       /\ i <= Len(b)
       /\ Take(a, i - 1) = Take(b, i - 1)
       /\ a[i] < b[i]

KeyLeq(a, b) == a = b \/ KeyLess(a, b)

RECURSIVE getLengthOfCommonPrefixFrom(_, _, _, _)
getLengthOfCommonPrefixFrom(first, second, secondOffset, commonIndex) ==
  IF /\ Len(first) > commonIndex
     /\ Len(second) > commonIndex + secondOffset
     /\ Token(first, commonIndex) = Token(second, commonIndex + secondOffset)
  THEN getLengthOfCommonPrefixFrom(first, second, secondOffset, commonIndex + 1)
  ELSE commonIndex

getLengthOfCommonPrefix(first, second, secondOffset) ==
  getLengthOfCommonPrefixFrom(first, second, secondOffset, 0)

\* ------------------------------------------------------ ids and nodeChildren
Empty == <<>>

\* the nil nodeChildren map: distinct from the empty, non-nil map <<>>
NilChildren == [i \in {-1} |-> -1]
IsNil(m) == -1 \in DOMAIN m
\* reads of a map treat nil as empty (len, lookup, range)
Kids(m) == IF IsNil(m) THEN <<>> ELSE m
NumKids(m) == Cardinality(DOMAIN Kids(m))

child(ck, id, p) == [compressedKey |-> ck, id |-> id, ptr |-> p]

\* what calculateID hashes: the key, the value (digest) and, per token in
\* ascending order, the child's compressed key and id
calculateID(key, children, value) ==
  <<key, value,
    [tok \in DOMAIN Kids(children) |->
       <<Kids(children)[tok].compressedKey, Kids(children)[tok].id>>]>>

\* ------------------------------------------------------------------ state
VARIABLES
  created,        \* the views constructed so far
  parentTrie,     \* view -> its parentTrie (DB or a view)
  invalidated,    \* view -> BOOLEAN
  committed,      \* view -> BOOLEAN
  nodesAlreadyCalculated, \* view -> BOOLEAN
  calculateNodesOnce, \* view -> "new", "running" or "done"
  childViews,     \* trie (DB or view) -> sequence of registered child views
  values,         \* view -> changes.values: key -> [before, after]
  rootID,         \* view -> changes.rootID
  childrenChanges,\* view -> key -> nodeChildren (or NilChildren)
  dbNodes,        \* the database's nodes: key -> nodeChildren
  dbValues,       \* the database's values: key -> value
  dbRootID,       \* the database's root id
  sema,           \* free permits of db.calculateNodeIDsSema
  issued,         \* number of batch operations handed to NewView so far
  pc              \* threads of the concurrent specifications; pc.pebble is
                  \* the pebble Database, pc.paths two SerializedPaths

vars == <<created, parentTrie, invalidated, committed, nodesAlreadyCalculated,
          calculateNodesOnce, childViews, values, rootID, childrenChanges, dbNodes,
          dbValues, dbRootID, sema, issued, pc>>

\* ------------------------------------------------------- map helpers
MapPut(m, k, v) == [x \in (DOMAIN m) \cup {k} |-> IF x = k THEN v ELSE m[x]]
MapDel(m, k) == [x \in (DOMAIN m) \ {k} |-> m[x]]

\* a result of getChildren / getChildrenInternal: the map, whether it is the
\* very map stored in the view's childrenChanges (attached) or a maps.Clone
\* of an ancestor's, and the error
ChildrenResult(m, att, e) == [children |-> m, attached |-> att, err |-> e]

\* ---------------------------------------------------- the database's reads
\* merkleDB.getValue: Nothing (and no error) for an absent key
dbGetValue(key) ==
  [val |-> IF key \in DOMAIN dbValues THEN Some(dbValues[key]) ELSE Nothing,
   err |-> NoErr]

\* merkleDB.getChildren: the node's child table, freshly built for the caller
dbGetChildren(key) ==
  IF key \in DOMAIN dbNodes
  THEN ChildrenResult(dbNodes[key], FALSE, NoErr)
  ELSE ChildrenResult(NilChildren, FALSE, ErrNotFound)

\* ------------------------------------------------------------ view reads
isInvalid(t) == invalidated[t]

getParentTrie(t) == parentTrie[t]

RECURSIVE getValue(_, _)
\* getValue with a pending delete taken for no pending change
getValueDeleteFallsThrough(t, key) ==
  IF isInvalid(t) THEN [val |-> Nothing, err |-> ErrInvalid]
  ELSE IF key \in DOMAIN values[t] /\ values[t][key].after # Nothing
  THEN [val |-> values[t][key].after, err |-> NoErr]
  ELSE LET r == IF getParentTrie(t) = DB THEN dbGetValue(key)
                ELSE getValue(getParentTrie(t), key)
       IN IF r.err # NoErr THEN [val |-> Nothing, err |-> r.err]
          ELSE IF isInvalid(t) THEN [val |-> Nothing, err |-> ErrInvalid]
          ELSE r

getValue(t, key) ==
  IF isInvalid(t) THEN [val |-> Nothing, err |-> ErrInvalid]
  ELSE IF key \in DOMAIN values[t]
  THEN [val |-> values[t][key].after, err |-> NoErr]
  ELSE LET r == IF getParentTrie(t) = DB THEN dbGetValue(key)
                ELSE getValue(getParentTrie(t), key)
       IN IF r.err # NoErr THEN [val |-> Nothing, err |-> r.err]
          ELSE IF isInvalid(t) THEN [val |-> Nothing, err |-> ErrInvalid]
          ELSE r

\* cc: view -> childrenChanges, the node edits as they stand while an
\* operation runs
RECURSIVE getChildrenInternal(_, _, _)
RECURSIVE getChildren(_, _, _)
getChildrenInternal(cc, t, key) ==
  IF key \in DOMAIN cc[t]
  THEN IF IsNil(cc[t][key])
       THEN ChildrenResult(NilChildren, FALSE, ErrNotFound)
       ELSE ChildrenResult(cc[t][key], TRUE, NoErr)
  ELSE LET r == IF getParentTrie(t) = DB THEN dbGetChildren(key)
                ELSE getChildren(cc, getParentTrie(t), key)
       IN IF r.err # NoErr THEN ChildrenResult(NilChildren, FALSE, r.err)
          ELSE ChildrenResult(r.children, FALSE, NoErr)

getChildren(cc, t, key) ==
  IF isInvalid(t) THEN ChildrenResult(NilChildren, FALSE, ErrInvalid)
  ELSE LET n == getChildrenInternal(cc, t, key)
       IN IF n.err # NoErr THEN ChildrenResult(NilChildren, FALSE, n.err)
          ELSE IF isInvalid(t) THEN ChildrenResult(NilChildren, FALSE, ErrInvalid)
          ELSE n

\* ------------------------------------------- recording node edits (one view)
\* c: the view's childrenChanges; t: the view (the allocator of new entries)
recordNewNode(c, key) == MapPut(c, key, <<>>)

recordChildRemoved(c, key, childKey) ==
  IF key \in DOMAIN c /\ ~IsNil(c[key])
  THEN MapPut(c, key, MapDel(c[key], Token(childKey, Len(key))))
  ELSE c

recordNodeDeleted(c, key) == MapPut(c, key, NilChildren)

recordChildEntry(c, key, childIndex, entry) ==
  IF key \in DOMAIN c /\ ~IsNil(c[key])
  THEN MapPut(c, key, MapPut(c[key], childIndex, entry))
  ELSE MapPut(c, key, MapPut(<<>>, childIndex, entry))

recordPendingChildChange(c, t, key, childKey) ==
  recordChildEntry(c, key, Token(childKey, Len(key)),
                   child(Skip(childKey, Len(key) + 1), Empty, t))

recordChildChange(c, t, key, childKey, id) ==
  recordChildEntry(c, key, Token(childKey, Len(key)),
                   child(Skip(childKey, Len(key) + 1), id, t))

\* ------------------------------------------------------- visitPathToKey
\* A visited node: its key, the map handed to visitNode, and whether that map
\* is the one stored in childrenChanges (so that later edits show through it)
Visited(key, m, att) == [key |-> key, children |-> m, attached |-> att]

RECURSIVE visitLoop(_, _, _, _)
\* the loop's step to the node at nextKey, r being what getChildrenInternal
\* returned for it
visitNext(cc, t, key, path, nextKey, r) ==
  IF r.err # NoErr THEN [path |-> path, err |-> r.err]
  ELSE visitLoop(cc, t, key,
                 Append(path, Visited(nextKey, r.children, r.attached)))

visitLoop(cc, t, key, path) ==
  LET cur == path[Len(path)]
      currentKey == cur.key
      currentChildren == Kids(cur.children)
  IN IF Len(currentKey) >= Len(key) THEN [path |-> path, err |-> NoErr]
     ELSE LET tok == Token(key, Len(currentKey))
          IN IF \/ tok \notin DOMAIN currentChildren
                \/ ~iteratedHasPrefix(key, currentChildren[tok].compressedKey,
                                      Len(currentKey) + 1)
             THEN [path |-> path, err |-> NoErr]
             ELSE LET nextKey == Take(key, Len(currentKey) + 1
                                       + Len(currentChildren[tok].compressedKey))
                  IN visitNext(cc, t, key, path, nextKey,
                               getChildrenInternal(cc, t, nextKey))

\* the nodes visitNode is called on, root first, and the error of the walk
visitPathToKey(cc, t, key) ==
  LET rootChildren == IF emptyKey \in DOMAIN cc[t] THEN cc[t][emptyKey]
                      ELSE NilChildren
  IN visitLoop(cc, t, key,
               <<Visited(emptyKey, rootChildren, ~IsNil(rootChildren))>>)

\* what a map variable obtained during the walk reads now
Deref(c, v) == IF v.attached THEN c[v.key] ELSE v.children


\* ------------------------------------------------- insert / remove (one view)
\* the views' node edits with view t's replaced by c
World(t, c) == [childrenChanges EXCEPT ![t] = c]

Edit(c, e) == [c |-> c, err |-> e]

\* insert's visitNode: recordPendingChildChange(previousKey, localKey) for
\* every visited node but the first
RECURSIVE insertMarkPath(_, _, _, _)
insertMarkPath(c, t, path, i) ==
  IF i > Len(path) THEN c
  ELSE insertMarkPath(
         recordPendingChildChange(c, t, path[i - 1].key, path[i].key),
         t, path, i + 1)

\* insert after the walk: c1 are the node edits the walk left, closest the
\* last node it visited, walkErr its error
insertAt(c1, t, key, closest, walkErr) ==
  LET closestKey == closest.key
      closestChildren == Kids(Deref(c1, closest))
  IN IF walkErr # NoErr THEN Edit(c1, walkErr)
     ELSE IF closestKey = key THEN Edit(c1, NoErr)
     ELSE
     LET tok == Token(key, Len(closestKey))
     IN IF tok \notin DOMAIN closestChildren
        THEN Edit(recordNewNode(recordChildChange(c1, t, closestKey, key, Empty),
                                key), NoErr)
        ELSE
        LET existingChildEntry == closestChildren[tok]
            commonPrefixLength ==
              getLengthOfCommonPrefix(existingChildEntry.compressedKey, key,
                                      Len(closestKey) + 1)
            branchKey == Take(key, Len(closestKey) + 1 + commonPrefixLength)
            c2 == recordChildChange(c1, t, closestKey, branchKey, Empty)
            c3 == IF Len(key) # Len(branchKey)
                  THEN recordChildChange(c2, t, branchKey, key, Empty)
                  ELSE c2
            c4 == recordChildEntry(c3, branchKey,
                    Token(existingChildEntry.compressedKey, commonPrefixLength),
                    child(Skip(existingChildEntry.compressedKey,
                               commonPrefixLength + 1),
                          existingChildEntry.id, t))
        IN IF Len(existingChildEntry.compressedKey) <= commonPrefixLength
           THEN Edit(c1, ErrGetPathToFailure)
           ELSE Edit(recordNewNode(c4, key), NoErr)

insertWalked(c0, t, key, walk) ==
  insertAt(insertMarkPath(c0, t, walk.path, 2), t, key,
           walk.path[Len(walk.path)], walk.err)

insert(c0, t, key) ==
  IF nodesAlreadyCalculated[t] THEN Edit(c0, ErrNodesAlreadyCalculated)
  ELSE insertWalked(c0, t, key, visitPathToKey(World(t, c0), t, key))

\* compressNodePath once it has read the node's value v
compressOverNode(c, t, parentKey, node, nodeKey, v) ==
  LET index == CHOOSE i \in DOMAIN Kids(node) : TRUE
      childEntry == Kids(node)[index]
      childKey == Extend(nodeKey, index, childEntry.compressedKey)
  IN IF v.err # NoErr \/ HasValue(v.val) THEN Edit(c, v.err)
     ELSE Edit(recordChildChange(recordNodeDeleted(c, nodeKey), t,
                                 parentKey, childKey, childEntry.id), NoErr)

\* node, parent: the maps as the caller's variables read them (nil allowed)
compressNodePath(c, t, parent, parentKey, node, nodeKey) ==
  IF nodesAlreadyCalculated[t] THEN Edit(c, ErrNodesAlreadyCalculated)
  ELSE IF IsNil(parent) \/ NumKids(node) # 1 THEN Edit(c, NoErr)
  ELSE compressOverNode(c, t, parentKey, node, nodeKey, getValue(t, nodeKey))

\* remove's visitNode: recordPendingChildChange(parentKey, nodeToDeleteKey)
\* whenever the previously visited node's map is not nil
RECURSIVE removeMarkPath(_, _, _, _)
removeMarkPath(c, t, path, i) ==
  IF i > Len(path) THEN c
  ELSE removeMarkPath(
         IF IsNil(path[i - 1].children) THEN c
         ELSE recordPendingChildChange(c, t, path[i - 1].key, path[i].key),
         t, path, i + 1)

\* the i-th last visited node; the zero values (nil map, empty key) when the
\* walk was shorter
VisitedFromEnd(path, i) ==
  IF Len(path) >= i THEN path[Len(path) + 1 - i]
  ELSE Visited(emptyKey, NilChildren, FALSE)

\* remove after the walk: c1 are the node edits the walk left, walkErr its
\* error, nodeToDelete, parent and grandParent the last three nodes it visited
removeAt(c1, t, walkErr, nodeToDelete, parent, grandParent) ==
  IF walkErr # NoErr THEN Edit(c1, walkErr)
  ELSE IF NumKids(Deref(c1, nodeToDelete)) # 0
  THEN compressNodePath(c1, t, Deref(c1, parent), parent.key,
                        Deref(c1, nodeToDelete), nodeToDelete.key)
  ELSE
  LET c2 == recordNodeDeleted(c1, nodeToDelete.key)
      c3 == recordChildRemoved(c2, parent.key, nodeToDelete.key)
  IN IF IsNil(Deref(c2, parent)) THEN Edit(c2, NoErr)
     ELSE compressNodePath(c3, t, Deref(c3, grandParent), grandParent.key,
                           Deref(c3, parent), parent.key)

removeWalked(c0, t, walk) ==
  removeAt(removeMarkPath(c0, t, walk.path, 2), t, walk.err,
           VisitedFromEnd(walk.path, 1), VisitedFromEnd(walk.path, 2),
           VisitedFromEnd(walk.path, 3))

\* remove once getChildren(key) has returned keyNode
removeNode(c0, t, key, keyNode) ==
  IF keyNode.err = ErrNotFound THEN Edit(c0, NoErr)
  ELSE IF keyNode.err # NoErr THEN Edit(c0, keyNode.err)
  ELSE IF IsNil(keyNode.children) THEN Edit(c0, NoErr)
  ELSE removeWalked(c0, t, visitPathToKey(World(t, c0), t, key))

remove(c0, t, key) ==
  IF nodesAlreadyCalculated[t] THEN Edit(c0, ErrNodesAlreadyCalculated)
  ELSE removeNode(c0, t, key, getChildren(World(t, c0), t, key))


\* ------------------------------------------------------ node-ID calculation
\* children[childIndex].id = id.  The assignment writes the *child object:
\* it shows in every stored map that holds that object (the same position of
\* the views sharing it through maps.Clone).  Objects handed out by the
\* database (ptr = DB) are the caller's own.
writeChildIDShared(cc, key, childIndex, p, id) ==
  [x \in DOMAIN cc |->
     IF /\ key \in DOMAIN cc[x]
        /\ childIndex \in DOMAIN cc[x][key]
     THEN [cc[x] EXCEPT ![key][childIndex].id = id]
     ELSE cc[x]]

writeChildID(cc, key, childIndex, p, id) ==
  [x \in DOMAIN cc |->
     IF /\ p # DB
        /\ key \in DOMAIN cc[x]
        /\ childIndex \in DOMAIN cc[x][key]
        /\ cc[x][key][childIndex].ptr = p
     THEN [cc[x] EXCEPT ![key][childIndex].id = id]
     ELSE cc[x]]

HelperResult(id, e, cc) == [id |-> id, err |-> e, cc |-> cc]

RECURSIVE calculateNodeIDsHelper(_, _, _, _)
RECURSIVE calculateChildIDs(_, _, _, _, _)

\* calculateChildID returned: r is what calculateNodeIDsHelper gave for the
\* child at childIndex
calculatedChild(t, key, children, todo, childIndex, r) ==
  IF r.err # NoErr
  THEN [children |-> [children EXCEPT ![childIndex].id = r.id],
        err |-> r.err,
        cc |-> writeChildID(r.cc, key, childIndex, children[childIndex].ptr, r.id)]
  ELSE calculateChildIDs(
         writeChildID(r.cc, key, childIndex, children[childIndex].ptr, r.id),
         t, key, [children EXCEPT ![childIndex].id = r.id], todo \ {childIndex})

\* the loop over children: todo are the child indexes not yet looked at
calculateChildIDs(cc, t, key, children, todo) ==
  IF todo = {} THEN [children |-> children, err |-> NoErr, cc |-> cc]
  ELSE
  LET childIndex == CHOOSE i \in todo : \A j \in todo : i <= j
      ch == children[childIndex]
      childPath == Extend(key, childIndex, ch.compressedKey)
      childrenChanged == childPath \in DOMAIN cc[t]
      valueChanged == childPath \in DOMAIN values[t]
      changedValue == IF valueChanged THEN values[t][childPath].after
                      ELSE Nothing
  IN IF (~childrenChanged /\ ~valueChanged) \/ ch.id # Empty
     THEN calculateChildIDs(cc, t, key, children, todo \ {childIndex})
     ELSE calculatedChild(t, key, children, todo, childIndex,
                          calculateNodeIDsHelper(cc, t, childPath, changedValue))

\* the helper after eg.Wait: kids is what the loop over the children left
helperJoined(key, value, kids) ==
  IF kids.err # NoErr THEN HelperResult(Empty, kids.err, kids.cc)
  ELSE HelperResult(calculateID(key, kids.children, value), NoErr, kids.cc)

\* the helper once getChildren(key) has returned got
helperOver(cc, t, key, value, got) ==
  IF got.err # NoErr THEN HelperResult(Empty, got.err, cc)
  ELSE helperJoined(key, value,
                    calculateChildIDs(cc, t, key, Kids(got.children),
                                      DOMAIN Kids(got.children)))

calculateNodeIDsHelper(cc, t, key, value) ==
  helperOver(cc, t, key, value, getChildren(cc, t, key))

\* the orders in which  for key, change := range t.changes.values  may run
Orders(S) ==
  {o \in [1 .. Cardinality(S) -> S] : \A i, j \in DOMAIN o : i # j => o[i] # o[j]}

\* add all the changed key/values to the nodes of the trie, in the given order
RECURSIVE applyValueChanges(_, _, _, _)
\* r: what the remove or insert of the i-th change returned
appliedValueChange(t, order, i, r) ==
  IF r.err # NoErr THEN r ELSE applyValueChanges(r.c, t, order, i + 1)

applyValueChanges(c, t, order, i) ==
  IF i > Len(order) THEN Edit(c, NoErr)
  ELSE appliedValueChange(t, order, i,
                          IF values[t][order[i]].after = Nothing
                          THEN remove(c, t, order[i])
                          ELSE insert(c, t, order[i]))

Blocked == "blocked"

\* what one call of calculateNodeIDs does to the view and returns
CalcResult(e, cc, once, nac, id, permits) ==
  [err |-> e, cc |-> cc, once |-> once, nac |-> nac, rootID |-> id,
   sema |-> permits]

\* the function calculateNodeIDs hands to calculateNodesOnce.Do, from the call
\* of calculateNodeIDsHelper on: h is what the helper returned
onceHashed(t, h) ==
  IF h.err # NoErr
  THEN CalcResult(h.err, h.cc, "done", TRUE, h.id, sema - 1)
  ELSE IF isInvalid(t)
  THEN CalcResult(ErrInvalid, h.cc, "done", TRUE, h.id, sema)
  ELSE CalcResult(NoErr, h.cc, "done", TRUE, h.id, sema)

\* ... from sema.Acquire on: cc1 are the node edits after the changes were
\* applied, val is what getValue(emptyKey) returned
onceAcquired(t, cc1, val) ==
  IF val.err # NoErr
  THEN CalcResult(val.err, cc1, "done", TRUE, rootID[t], sema - 1)
  ELSE onceHashed(t, calculateNodeIDsHelper(cc1, t, emptyKey, val.val))

\* ... from the end of the loop over the changes on: edits is what it left
onceApplied(t, edits) ==
  IF edits.err # NoErr
  THEN CalcResult(edits.err, World(t, edits.c), "done", TRUE, rootID[t], sema)
  ELSE IF sema = 0
  THEN CalcResult(Blocked, World(t, edits.c), "running", FALSE, rootID[t], sema)
  ELSE onceAcquired(t, World(t, edits.c), getValue(t, emptyKey))

\* the function calculateNodeIDs hands to calculateNodesOnce.Do, as it runs on
\* a view whose first validity check read invalidAtEntry
onceBody(t, order, invalidAtEntry) ==
  IF invalidAtEntry
  THEN CalcResult(ErrInvalid, childrenChanges, "done",
                  nodesAlreadyCalculated[t], rootID[t], sema)
  ELSE onceApplied(t, applyValueChanges(childrenChanges[t], t, order, 1))

\* err is a local of each call: a call that finds the Once done returns nil
calculateNodeIDs(t, order) ==
  IF calculateNodesOnce[t] = "done"
  THEN CalcResult(NoErr, childrenChanges, calculateNodesOnce[t],
                  nodesAlreadyCalculated[t], rootID[t], sema)
  ELSE IF calculateNodesOnce[t] = "running"
  THEN CalcResult(Blocked, childrenChanges, calculateNodesOnce[t],
                  nodesAlreadyCalculated[t], rootID[t], sema)
  ELSE onceBody(t, order, isInvalid(t))

CalcOrders(t) ==
  IF calculateNodesOnce[t] = "new" /\ ~isInvalid(t) THEN Orders(DOMAIN values[t])
  ELSE {<<>>}


\* ----------------------------------------------------------- invalidation
\* st: [invalidated, childViews]
RECURSIVE invalidate(_, _)
RECURSIVE invalidateEach(_, _, _)
invalidateEach(st, list, i) ==
  IF i > Len(list) THEN st
  ELSE invalidateEach(invalidate(st, list[i]), list, i + 1)

\* invalidate that leaves the registered children as they are
invalidateSelfOnly(st, t) ==
  [st EXCEPT !.invalidated[t] = TRUE, !.childViews[t] = <<>>]

invalidate(st, t) ==
  LET st1 == [st EXCEPT !.invalidated[t] = TRUE]
      st2 == invalidateEach(st1, st1.childViews[t], 1)
  IN [st2 EXCEPT !.childViews[t] = <<>>]

\* ------------------------------------------------------------ newTrieView
\* a batch operation: a key and the value put there (Nothing: a delete)
BatchOp(key, val) == [Key |-> key, Value |-> val]
BatchOps(K) == {BatchOp(k, v) : k \in K, v \in {Nothing} \cup {Some(x) : x \in Values}}

\* the batches of at most n puts and deletes over the keys K
RECURSIVE Batches(_, _)
Batches(K, n) ==
  IF n = 0 THEN {<<>>}
  ELSE Batches(K, n - 1)
         \cup {Append(b, op) : b \in Batches(K, n - 1), op \in BatchOps(K)}

\* vals: the new view's changes.values so far
\* before: what the parent's getValue(key) returned
recordNewChange(vals, key, value, before) ==
  IF before.err # NoErr THEN [vals |-> vals, err |-> before.err]
  ELSE [vals |-> MapPut(vals, key, [before |-> before.val, after |-> value]),
        err |-> NoErr]

recordValueChange(vals, nac, parent, key, value) ==
  IF nac THEN [vals |-> vals, err |-> ErrNodesAlreadyCalculated]
  ELSE IF key \in DOMAIN vals
  THEN [vals |-> [vals EXCEPT ![key].after = value], err |-> NoErr]
  ELSE recordNewChange(vals, key, value,
                       IF parent = DB THEN dbGetValue(key)
                       ELSE getValue(parent, key))

RECURSIVE recordBatch(_, _, _, _)
\* r: what recordValueChange returned for the i-th operation
recordedOp(parent, ops, i, r) ==
  IF r.err # NoErr THEN r ELSE recordBatch(r.vals, parent, ops, i + 1)

recordBatch(vals, parent, ops, i) ==
  IF i > Len(ops) THEN [vals |-> vals, err |-> NoErr]
  ELSE recordedOp(parent, ops, i,
                  recordValueChange(vals, FALSE, parent, ops[i].Key, ops[i].Value))

\* the child objects of a map the database hands out belong to the caller
Owned(m, nv) == IF IsNil(m) THEN m ELSE [tok \in DOMAIN m |-> [m[tok] EXCEPT !.ptr = nv]]

\* newTrieView with the parent's root children and the recorded batch at hand
newTrieViewOver(nv, parent, rootChildren, recorded) ==
  LET rootClone == IF parent = DB THEN Owned(rootChildren.children, nv)
                   ELSE rootChildren.children
  IN IF rootChildren.err = ErrNotFound
     THEN [err |-> ErrNoValidRoot, values |-> <<>>, cc |-> <<>>]
     ELSE IF rootChildren.err # NoErr
     THEN [err |-> rootChildren.err, values |-> <<>>, cc |-> <<>>]
     ELSE IF recorded.err # NoErr
     THEN [err |-> recorded.err, values |-> <<>>, cc |-> <<>>]
     ELSE [err |-> NoErr, values |-> recorded.vals,
           cc |-> MapPut(<<>>, emptyKey, rootClone)]

\* cc: the node edits of the views when newTrieView runs; nv: the new view.
\* ChangeSet.MapOps is taken empty.
newTrieView(cc, nv, parent, ops) ==
  newTrieViewOver(nv, parent,
                  IF parent = DB THEN dbGetChildren(emptyKey)
                  ELSE getChildren(cc, parent, emptyKey),
                  recordBatch(<<>>, parent, ops, 1))

\* ------------------------------------------------------------------ proofs
asProofNode(key, children, value) ==
  [key |-> key, valueOrHash |-> value,
   children |-> [tok \in DOMAIN Kids(children) |-> Kids(children)[tok].id]]

\* the error of getProof's visitNode (t.getValue) on the visited nodes, first
\* one first
RECURSIVE visitValueErr(_, _, _)
visitValueErr(t, path, i) ==
  IF i > Len(path) THEN NoErr
  ELSE IF getValue(t, path[i].key).err # NoErr THEN getValue(t, path[i].key).err
  ELSE visitValueErr(t, path, i + 1)

ProofResult(e, key, val, path) ==
  [err |-> e, Key |-> key, Value |-> val, Path |-> path]

\* the nodes visitNode appended to the proof
proofNodes(t, path) ==
  [i \in 1 .. Len(path) |->
     asProofNode(path[i].key, path[i].children, getValue(t, path[i].key).val)]

\* the end of getProof, with the child of the closest node at hand
proofWithChild(t, key, nodes, childKey, childChildren, childValue) ==
  IF childChildren.err # NoErr
  THEN ProofResult(childChildren.err, key, Nothing, <<>>)
  ELSE IF childValue.err # NoErr
  THEN ProofResult(childValue.err, key, Nothing, <<>>)
  ELSE IF isInvalid(t) THEN ProofResult(ErrInvalid, key, Nothing, <<>>)
  ELSE ProofResult(NoErr, key, Nothing,
         Append(nodes, asProofNode(childKey, childChildren.children,
                                   childValue.val)))

\* getProof after the walk: its error, the error of its visitNode calls, the
\* nodes they appended and the last node visited
proofAt(cc, t, key, walkErr, cbErr, nodes, closest) ==
  LET closestKey == closest.key
      closestChildren == Kids(closest.children)
      nextIndex == Token(key, Len(closestKey))
      childKey == Extend(closestKey, nextIndex,
                         closestChildren[nextIndex].compressedKey)
  IN IF cbErr # NoErr THEN ProofResult(cbErr, key, Nothing, <<>>)
     ELSE IF walkErr # NoErr THEN ProofResult(walkErr, key, Nothing, <<>>)
     ELSE IF closestKey = key
     THEN ProofResult(NoErr, key, getValue(t, closestKey).val, nodes)
     ELSE IF nextIndex \notin DOMAIN closestChildren
     THEN ProofResult(NoErr, key, Nothing, nodes)
     ELSE proofWithChild(t, key, nodes, childKey, getChildren(cc, t, childKey),
                         getValue(t, childKey))

proofOfWalk(cc, t, key, walk) ==
  proofAt(cc, t, key, walk.err, visitValueErr(t, walk.path, 1),
          proofNodes(t, walk.path), walk.path[Len(walk.path)])

getProof(cc, t, key) == proofOfWalk(cc, t, key, visitPathToKey(cc, t, key))

\* the keys the view's iterator yields from start on, ascending: the keys
\* that have a value in the view
RECURSIVE SortKeys(_)
SortKeys(S) ==
  IF S = {} THEN <<>>
  ELSE LET k == CHOOSE x \in S : \A y \in S : KeyLeq(x, y)
       IN <<k>> \o SortKeys(S \ {k})

IteratorWithStart(t, start) ==
  SortKeys({k \in Keys : /\ getValue(t, k).val # Nothing
                         /\ (start = Nothing \/ KeyLeq(start[1], k))})

RECURSIVE commonNodes(_, _, _)
commonNodes(startProof, endProof, i) ==
  IF /\ i < Len(startProof)
     /\ i < Len(endProof)
     /\ startProof[i + 1].key = endProof[i + 1].key
  THEN commonNodes(startProof, endProof, i + 1)
  ELSE i

RangeResult(e, kvs, sp, ep) ==
  [err |-> e, KeyValues |-> kvs, StartProof |-> sp, EndProof |-> ep]

\* a proof variable that was not assigned
NoProof == ProofResult(NoErr, rootKey, Nothing, <<>>)

\* the loop over the iterator without its test of end
rangeKeysNoEnd(it, end, maxLength) ==
  SubSeq(it, 1, IF Len(it) < maxLength THEN Len(it) ELSE maxLength)

\* the keys the loop over the iterator appends
rangeKeys(it, end, maxLength) ==
  LET inRange == SelectSeq(it, LAMBDA k : end = Nothing \/ KeyLeq(k, end[1]))
  IN SubSeq(inRange, 1, IF Len(inRange) < maxLength THEN Len(inRange)
                        ELSE maxLength)

rangeKeyValues(t, keys) ==
  [i \in 1 .. Len(keys) |->
     [Key |-> keys[i], Value |-> getValue(t, keys[i]).val[1]]]

\* the final validity check
rangeChecked(t, kvs, startPath, endPath) ==
  IF isInvalid(t) THEN RangeResult(ErrInvalid, <<>>, <<>>, <<>>)
  ELSE RangeResult(NoErr, kvs, startPath, endPath)

\* the empty range: the root proof
rangeOfRoot(t, rootProof) ==
  IF rootProof.err # NoErr THEN RangeResult(rootProof.err, <<>>, <<>>, <<>>)
  ELSE rangeChecked(t, <<>>, <<>>, rootProof.Path)

\* the root proof returned whenever no key is returned and there is no end
\* proof, whatever the start proof
rangeOfPathsRootAlways(cc, t, keys, startPath, endPath) ==
  IF Len(endPath) = 0 /\ Len(keys) = 0
  THEN rangeOfRoot(t, getProof(cc, t, rootKey))
  ELSE rangeChecked(t, rangeKeyValues(t, keys), startPath, endPath)

rangeOfPaths(cc, t, keys, startPath, endPath) ==
  IF Len(startPath) = 0 /\ Len(endPath) = 0 /\ Len(keys) = 0
  THEN rangeOfRoot(t, getProof(cc, t, rootKey))
  ELSE rangeChecked(t, rangeKeyValues(t, keys), startPath, endPath)

\* with the end proof and the start proof at hand
rangeOfProofs(cc, t, keys, endProof, startProof) ==
  IF endProof.err # NoErr THEN RangeResult(endProof.err, <<>>, <<>>, <<>>)
  ELSE IF startProof.err # NoErr
  THEN RangeResult(startProof.err, <<>>, <<>>, <<>>)
  ELSE rangeOfPaths(cc, t, keys,
                    Skip(startProof.Path,
                         commonNodes(startProof.Path, endProof.Path, 0)),
                    endProof.Path)

\* the end proof taken for the requested end whenever there is one
rangeOfKeysEndRequested(cc, t, start, end, keys) ==
  rangeOfProofs(cc, t, keys,
                IF end # Nothing THEN getProof(cc, t, end[1])
                ELSE IF Len(keys) > 0 THEN getProof(cc, t, keys[Len(keys)])
                ELSE NoProof,
                IF start # Nothing THEN getProof(cc, t, start[1]) ELSE NoProof)

rangeOfKeys(cc, t, start, end, keys) ==
  rangeOfProofs(cc, t, keys,
                IF Len(keys) > 0 THEN getProof(cc, t, keys[Len(keys)])
                ELSE IF end # Nothing THEN getProof(cc, t, end[1])
                ELSE NoProof,
                IF start # Nothing THEN getProof(cc, t, start[1]) ELSE NoProof)

\* GetRangeProof after its calculateNodeIDs returned nil
getRangeProof(cc, t, start, end, maxLength) ==
  rangeOfKeys(cc, t, start, end,
              rangeKeys(IteratorWithStart(t, start), end, maxLength))

\* ------------------------------------------------------------------ Init
\* no reader, no commit at work
Idle == [phase |-> "idle"]
\* the threads that call calculateNodeIDs at the same time
Callers == 1 .. NumCallers
\* the threads that use the validityTrackingLocks at the same time
Lockers == 1 .. NumLockers
\* the threads that call CommitToDB at the same time
Committers == 1 .. NumCommitters
\* the SerializedPath without nibbles
EmptyPath == [NibbleLength |-> 0, Value |-> <<>>]

\* pebble.New: the Database over a new engine
NewEngine == [data |-> <<>>, closed |-> FALSE, calls |-> 0,
              last |-> [op |-> "Open"]]

NewDatabase == [closed |-> FALSE, pebbleDB |-> NewEngine, ret |-> Idle, ops |-> 0]

NoThreads ==
  [reader |-> Idle, pending |-> <<>>, callers |-> [th \in Callers |-> Idle],
   hash |-> Idle, others |-> 0,
   dbCommitLock |-> 0, commitLock |-> [v \in Views |-> [w |-> 0, r |-> 0]],
   committers |-> [th \in Committers |-> Idle], maker |-> Idle,
   lockers |-> [th \in Lockers |-> Idle], pebble |-> NewDatabase,
   paths |-> [s |-> EmptyPath, other |-> EmptyPath, ret |-> Nothing,
              appended |-> [s |-> Some(<<>>), other |-> Some(<<>>)],
              has |-> Nothing]]

Init ==
  /\ created = {}
  /\ parentTrie = [v \in Views |-> DB]
  /\ invalidated = [v \in Views |-> FALSE]
  /\ committed = [v \in Views |-> FALSE]
  /\ nodesAlreadyCalculated = [v \in Views |-> FALSE]
  /\ calculateNodesOnce = [v \in Views |-> "new"]
  /\ childViews = [v \in {DB} \cup Views |-> <<>>]
  /\ values = [v \in Views |-> <<>>]
  /\ rootID = [v \in Views |-> Empty]
  /\ childrenChanges = [v \in Views |-> <<>>]
  /\ dbNodes = MapPut(<<>>, emptyKey, <<>>)
  /\ dbValues = <<>>
  /\ dbRootID = calculateID(emptyKey, <<>>, Nothing)
  /\ sema = NumCPU
  /\ issued = 0
  /\ pc = NoThreads

\* the sequential operations leave the threads alone
Sequential == UNCHANGED pc

\* the view a successful NewView constructs
NextView == Cardinality(created) + 1

\* a call that did not reach calculateNodeIDs
NoCalc(t) ==
  CalcResult(NoErr, childrenChanges, calculateNodesOnce[t],
             nodesAlreadyCalculated[t], rootID[t], sema)

ApplyCalcFlagLeft(t, r) ==
  /\ calculateNodesOnce' = [calculateNodesOnce EXCEPT ![t] = r.once]
  /\ nodesAlreadyCalculated' = nodesAlreadyCalculated
  /\ rootID' = [rootID EXCEPT ![t] = r.rootID]
  /\ sema' = r.sema

\* the state after calculateNodeIDs(t) returned r
ApplyCalc(t, r) ==
  /\ calculateNodesOnce' = [calculateNodesOnce EXCEPT ![t] = r.once]
  /\ nodesAlreadyCalculated' = [nodesAlreadyCalculated EXCEPT ![t] = r.nac]
  /\ rootID' = [rootID EXCEPT ![t] = r.rootID]
  /\ sema' = r.sema

\* the new view nv, made of nt, registered under parent
Construct(cc, nv, parent, nt) ==
  /\ created' = created \cup {nv}
  /\ parentTrie' = [parentTrie EXCEPT ![nv] = parent]
  /\ values' = [values EXCEPT ![nv] = nt.values]
  /\ childrenChanges' = [cc EXCEPT ![nv] = nt.cc]
  /\ childViews' = [childViews EXCEPT ![parent] = Append(@, nv)]

\* the end of NewView: nt is what newTrieView returned, err the error of
\* NewView, cc the node edits of the views at that time
Register(cc, parent, nt, err) ==
  IF err = NoErr
  THEN Construct(cc, NextView, parent, nt)
  ELSE /\ childrenChanges' = cc
       /\ UNCHANGED <<created, parentTrie, values, childViews>>

\* merkleDB.NewView
DBNewView(ops) ==
  /\ NextView \in Views
  /\ issued' = issued + Len(ops)
  /\ Register(childrenChanges, DB,
              newTrieView(childrenChanges, NextView, DB, ops),
              newTrieView(childrenChanges, NextView, DB, ops).err)
  /\ UNCHANGED <<invalidated, committed, nodesAlreadyCalculated,
                 calculateNodesOnce, rootID, dbNodes, dbValues, dbRootID, sema>>
  /\ Sequential

\* what trieView.NewView returns and the view it makes.  A committed view's
\* parentTrie is the database (only children of the database are committed),
\* so its redirect is db.NewView.
viewMade(e, r, parent, nt) ==
  [err |-> IF e # NoErr THEN e ELSE nt.err, calc |-> r, parent |-> parent,
   nt |-> nt]

\* NewView from newTrieView on: e is the error so far, r what calculateNodeIDs
\* did, parent the view the new one is built on
newViewOn(e, r, parent, ops) ==
  viewMade(e, r, parent, newTrieView(r.cc, NextView, parent, ops))

newViewCalculated(t, ops, r) == newViewOn(r.err, r, t, ops)

newView(t, ops, order) ==
  IF isInvalid(t) THEN newViewOn(ErrInvalid, NoCalc(t), t, ops)
  ELSE IF committed[t] THEN newViewOn(NoErr, NoCalc(t), getParentTrie(t), ops)
  ELSE newViewCalculated(t, ops, calculateNodeIDs(t, order))

\* the state after NewView returned r
NewViewReturned(t, r) ==
  /\ ApplyCalc(t, r.calc)
  /\ Register(r.calc.cc, r.parent, r.nt, r.err)

NewView(t, ops, order) ==
  /\ t \in created
  /\ NextView \in Views
  /\ issued' = issued + Len(ops)
  /\ UNCHANGED <<invalidated, committed, dbNodes, dbValues, dbRootID>>
  /\ Sequential
  /\ NewViewReturned(t, newView(t, ops, order))

\* what trieView.GetValue returns
valueCopy(r) ==
  IF r.err # NoErr THEN r
  ELSE IF r.val = Nothing THEN [val |-> Nothing, err |-> ErrNotFound]
  ELSE r

getValueCopy(t, key) == valueCopy(getValue(t, key))

\* trieView.GetValue: a read, the view stays as it is
GetValue(t, key) ==
  /\ t \in created
  /\ getValueCopy(t, key).err \in {NoErr, ErrNotFound, ErrInvalid}
  /\ UNCHANGED vars

\* what trieView.GetValues returns: per key, what GetValue returns
getValues(t, keys) == [i \in DOMAIN keys |-> getValueCopy(t, keys[i])]

\* trieView.GetValues: a read, the view stays as it is
GetValues(t, keys) ==
  /\ t \in created
  /\ Len(getValues(t, keys)) = Len(keys)
  /\ UNCHANGED vars

\* an operation that starts with calculateNodeIDs and then only reads
CalcThenRead(t, r) ==
  /\ ApplyCalc(t, r)
  /\ childrenChanges' = r.cc
  /\ UNCHANGED <<created, parentTrie, invalidated, committed, childViews, values,
                 dbNodes, dbValues, dbRootID, issued>>
  /\ Sequential

\* what trieView.GetMerkleRoot returns
merkleRoot(r) ==
  [err |-> r.err, id |-> IF r.err = NoErr THEN r.rootID ELSE Empty, calc |-> r]

getMerkleRoot(t, order) == merkleRoot(calculateNodeIDs(t, order))

GetMerkleRoot(t, order) ==
  /\ t \in created
  /\ CalcThenRead(t, getMerkleRoot(t, order).calc)

\* what trieView.GetProof returns
proofReturned(r, proof) ==
  [err |-> IF r.err # NoErr THEN r.err ELSE proof.err, proof |-> proof,
   calc |-> r]

proofCalculated(t, key, r) == proofReturned(r, getProof(r.cc, t, key))

GetProofResult(t, key, order) ==
  proofCalculated(t, key, calculateNodeIDs(t, order))

GetProof(t, key, order) ==
  /\ t \in created
  /\ CalcThenRead(t, GetProofResult(t, key, order).calc)

\* what trieView.GetRangeProof returns
\* the nil *RangeProof
NilRangeProof == "nil"

rangeProofReturned(r, p) ==
  [err |-> IF r.err # NoErr THEN r.err ELSE p.err, calc |-> r,
   proof |-> IF r.err # NoErr \/ p.err # NoErr THEN NilRangeProof ELSE p]

rangeProofCalculated(t, start, end, maxLength, r) ==
  rangeProofReturned(r, getRangeProof(r.cc, t, start, end, maxLength))

\* GetRangeProof that looks at its arguments after calculateNodeIDs
rangeProofArgsChecked(start, end, maxLength, res) ==
  IF start # Nothing /\ end # Nothing /\ KeyLess(end[1], start[1])
  THEN [err |-> ErrStartAfterEnd, calc |-> res.calc, proof |-> NilRangeProof]
  ELSE IF maxLength <= 0
  THEN [err |-> ErrInvalidMaxLength, calc |-> res.calc, proof |-> NilRangeProof]
  ELSE res

GetRangeProofResultArgsLast(t, start, end, maxLength, order) ==
  rangeProofArgsChecked(start, end, maxLength,
                        rangeProofCalculated(t, start, end, maxLength,
                                             calculateNodeIDs(t, order)))

GetRangeProofResult(t, start, end, maxLength, order) ==
  IF start # Nothing /\ end # Nothing /\ KeyLess(end[1], start[1])
  THEN [err |-> ErrStartAfterEnd, calc |-> NoCalc(t), proof |-> NilRangeProof]
  ELSE IF maxLength <= 0
  THEN [err |-> ErrInvalidMaxLength, calc |-> NoCalc(t), proof |-> NilRangeProof]
  ELSE rangeProofCalculated(t, start, end, maxLength,
                            calculateNodeIDs(t, order))

GetRangeProof(t, start, end, maxLength, order) ==
  /\ t \in created
  /\ CalcThenRead(t, GetRangeProofResult(t, start, end, maxLength, order).calc)

\* ------------------------------------------------------------------ commit
ErrWrite == "ErrWrite"

\* the database's nodes after the node edits c of a committed view are written
WriteNodes(nodes, c) ==
  [k \in ((DOMAIN nodes) \cup (DOMAIN c)) \ {x \in DOMAIN c : IsNil(c[x])} |->
     IF k \in DOMAIN c THEN Owned(c[k], DB) ELSE nodes[k]]

\* the database's values after the value changes vs of a committed view
WriteValues(vals, vs) ==
  [k \in ((DOMAIN vals) \cup (DOMAIN vs))
           \ {x \in DOMAIN vs : vs[x].after = Nothing} |->
     IF k \in DOMAIN vs THEN vs[k].after[1] ELSE vals[k]]

\* db.invalidateChildrenExcept(t): every other registered child of the
\* database is invalidated, with its descendants
RECURSIVE invalidateChildrenExcept(_, _, _)
invalidateChildrenExcept(st, t, i) ==
  IF i > Len(st.childViews[DB]) THEN st
  ELSE invalidateChildrenExcept(
         IF st.childViews[DB][i] = t THEN st
         ELSE invalidate(st, st.childViews[DB][i]),
         t, i + 1)

\* updateParent that keeps the old parent
updateParentKept(parents, t, newParent) == parents

\* trieView.updateParent
updateParent(parents, t, newParent) == [parents EXCEPT ![t] = newParent]

RECURSIVE moveChildViewsToDB(_, _, _)
moveChildViewsToDB(parents, list, i) ==
  IF i > Len(list) THEN parents
  ELSE moveChildViewsToDB(updateParent(parents, list[i], DB), list, i + 1)

\* the checks of merkleDB.commitChanges(t), and the outcome of its batch write
commitChanges(t, writeOK) ==
  IF isInvalid(t) THEN ErrInvalid
  ELSE IF committed[t] THEN ErrCommitted
  ELSE IF getParentTrie(t) # DB THEN ErrParentNotDatabase
  ELSE IF ~writeOK THEN ErrWrite
  ELSE NoErr

\* what trieView.CommitToDB returns
commitCalculated(t, writeOK, r) ==
  [err |-> IF r.err # NoErr THEN r.err ELSE commitChanges(t, writeOK),
   calc |-> r]

commitToDB(t, order, writeOK) ==
  commitCalculated(t, writeOK, calculateNodeIDs(t, order))

\* the state after merkleDB.commitChanges wrote the view: inv are the
\* invalidated flags it leaves
Written(t, r, inv) ==
  LET st == invalidateChildrenExcept(
              [invalidated |-> invalidated, childViews |-> childViews], t, 1)
  IN /\ dbNodes' = WriteNodes(dbNodes, r.cc[t])
     /\ dbValues' = WriteValues(dbValues, values[t])
     /\ dbRootID' = r.rootID
     /\ invalidated' = inv
     /\ childViews' = [st.childViews EXCEPT ![DB] = childViews[t], ![t] = <<>>]
     /\ parentTrie' = moveChildViewsToDB(parentTrie, childViews[t], 1)

\* ... and commitToDB has set t.committed
Committed(t, r, inv) ==
  /\ Written(t, r, inv)
  /\ committed' = [committed EXCEPT ![t] = TRUE]

\* the invalidated flags after db.invalidateChildrenExcept(t)
InvalidatedExcept(t) ==
  invalidateChildrenExcept(
    [invalidated |-> invalidated, childViews |-> childViews], t, 1).invalidated

\* CommitToDB that sets the committed flag whatever commitChanges returned
CommitReturnedFlagSet(t, c) ==
  /\ ApplyCalc(t, c.calc)
  /\ childrenChanges' = c.calc.cc
  /\ IF c.err = NoErr
     THEN Committed(t, c.calc, InvalidatedExcept(t))
     ELSE /\ committed' = [committed EXCEPT ![t] = TRUE]
          /\ UNCHANGED <<dbNodes, dbValues, dbRootID, invalidated, childViews,
                         parentTrie>>

\* the state after CommitToDB returned c
CommitReturned(t, c) ==
  /\ ApplyCalc(t, c.calc)
  /\ childrenChanges' = c.calc.cc
  /\ IF c.err = NoErr
     THEN Committed(t, c.calc, InvalidatedExcept(t))
     ELSE UNCHANGED <<dbNodes, dbValues, dbRootID, invalidated, childViews,
                      parentTrie, committed>>

CommitToDB(t, order, writeOK) ==
  /\ t \in created
  /\ CommitReturned(t, commitToDB(t, order, writeOK))
  /\ UNCHANGED <<created, values, issued>>
  /\ Sequential

\* ------------------------------------------------------------------- Spec
\* the keys the views of Spec are built and read with
SpecKeys == {k \in Keys : Len(k) = 0 \/ k = <<0>>}

\* the bounds of a range: none, or a key of one token
MaybeKeys == {Nothing} \cup {Some(k) : k \in KeysOfLen(1)}

\* the key lists GetValues is called with
KeyLists == {<<>>} \cup {<<k>> : k \in SpecKeys} \cup {<<j, k>> : j, k \in SpecKeys}

Next ==
  \/ \E ops \in Batches(SpecKeys, MaxOps - issued) : DBNewView(ops)
  \/ \E t \in Views, ops \in Batches(SpecKeys, MaxOps - issued) :
       \E order \in CalcOrders(t) : NewView(t, ops, order)
  \/ \E t \in Views, key \in SpecKeys : GetValue(t, key)
  \/ \E t \in Views, keys \in KeyLists : GetValues(t, keys)
  \/ \E t \in Views : \E order \in CalcOrders(t) : GetMerkleRoot(t, order)
  \/ \E t \in Views, key \in SpecKeys :
       \E order \in CalcOrders(t) : GetProof(t, key, order)
  \/ \E t \in Views, start \in MaybeKeys, end \in MaybeKeys, maxLength \in 0 .. 1 :
       \E order \in CalcOrders(t) : GetRangeProof(t, start, end, maxLength, order)
  \/ \E t \in Views, writeOK \in BOOLEAN :
       \E order \in CalcOrders(t) : CommitToDB(t, order, writeOK)

Spec == Init /\ [][Next]_vars

\* fewer views with larger batches over all the keys: the tries
NextTrie ==
  \/ \E ops \in Batches(Keys, MaxTrieOps - issued) :
       NextView <= MaxTrieViews /\ DBNewView(ops)
  \/ \E t \in Views, ops \in Batches(Keys, MaxTrieOps - issued) :
       \E order \in CalcOrders(t) :
         NextView <= MaxTrieViews /\ NewView(t, ops, order)
  \/ \E t \in Views, key \in Keys : GetValue(t, key)
  \/ \E t \in Views : \E order \in CalcOrders(t) : GetMerkleRoot(t, order)
  \/ \E t \in Views, key \in Keys :
       \E order \in CalcOrders(t) : GetProof(t, key, order)
  \/ \E t \in Views : \E order \in CalcOrders(t) : CommitToDB(t, order, TRUE)

SpecTrie == Init /\ [][NextTrie]_vars

\* ------------------------------------------------- a read during a commit
\* One thread reads a view (getValue or getChildren), one check or lookup
\* at a time, while another commits: the commit writes the database and
\* re-parents, and then invalidates the other children of the database and
\* their descendants one view at a time, parents first (pc.pending).

\* the order in which invalidating the views of list reaches the views
RECURSIVE Cascade(_, _, _)
Cascade(cv, list, i) ==
  IF i > Len(list) THEN <<>>
  ELSE <<list[i]>> \o Cascade(cv, cv[list[i]], 1) \o Cascade(cv, list, i + 1)

\* CommitToDB up to the start of db.invalidateChildrenExcept
\* the state when the CommitToDB that returns c has written the view
CommitWritten(t, c) ==
  /\ ApplyCalc(t, c.calc)
  /\ childrenChanges' = c.calc.cc
  /\ IF c.err = NoErr
     THEN /\ Committed(t, c.calc, invalidated)
          /\ pc' = [pc EXCEPT !.pending =
                      Cascade(childViews,
                              SelectSeq(childViews[DB], LAMBDA s : s # t), 1)]
     ELSE UNCHANGED <<dbNodes, dbValues, dbRootID, invalidated, childViews,
                      parentTrie, committed, pc>>

CommitStart(t, order) ==
  /\ t \in created
  /\ pc.pending = <<>>
  /\ CommitWritten(t, commitToDB(t, order, TRUE))
  /\ UNCHANGED <<created, values, issued>>

\* trieView.invalidate sets the flag of the next view
InvalidateNext ==
  /\ pc.pending # <<>>
  /\ invalidated' = [invalidated EXCEPT ![Head(pc.pending)] = TRUE]
  /\ pc' = [pc EXCEPT !.pending = Tail(@)]
  /\ UNCHANGED <<created, parentTrie, committed, nodesAlreadyCalculated,
                 calculateNodesOnce, childViews, values, rootID, childrenChanges,
                 dbNodes, dbValues, dbRootID, sema, issued>>

\* a call of getValue / getChildren on view v, at its first check
Frame(v) == [view |-> v, phase |-> "entry", r |-> Idle]

\* the view's own entry for the key: a pending value, or pending node edits
localHit(op, v, key) ==
  IF op = "getValue" THEN key \in DOMAIN values[v]
  ELSE key \in DOMAIN childrenChanges[v]

localResult(op, v, key) ==
  IF op = "getValue" THEN [val |-> values[v][key].after, err |-> NoErr]
  ELSE IF IsNil(childrenChanges[v][key])
  THEN ChildrenResult(NilChildren, FALSE, ErrNotFound)
  ELSE ChildrenResult(childrenChanges[v][key], TRUE, NoErr)

dbResult(op, key) ==
  IF op = "getValue" THEN dbGetValue(key) ELSE dbGetChildren(key)

errResult(op, e) ==
  IF op = "getValue" THEN [val |-> Nothing, err |-> e]
  ELSE ChildrenResult(NilChildren, FALSE, e)

\* the check after the parent trie (or getChildrenInternal) returned r
exitCheckSkipped(op, v, r) == r

exitCheck(op, v, r) ==
  IF r.err # NoErr THEN errResult(op, r.err)
  ELSE IF isInvalid(v) THEN errResult(op, ErrInvalid)
  ELSE r

\* what the caller makes of the r its parent trie returned: getChildrenInternal
\* clones the map
fromParent(op, r) ==
  IF op = "getValue" THEN r ELSE ChildrenResult(r.children, FALSE, r.err)

\* the call on top of the stack returns r to its caller
Return(rd, r) ==
  IF Len(rd.stack) = 1
  THEN [rd EXCEPT !.phase = "done", !.stack = <<>>, !.ret = r,
                  !.overlap = invalidated[rd.view]]
  ELSE [rd EXCEPT !.stack = [SubSeq(@, 1, Len(@) - 1) EXCEPT
                               ![Len(rd.stack) - 1].phase = "exit",
                               ![Len(rd.stack) - 1].r = fromParent(rd.op, r)]]

\* the call on top of the stack moves to ph
Goto(rd, ph) == [rd EXCEPT !.stack[Len(rd.stack)].phase = ph]

\* the next step of the call on top of the stack
readStep(rd) ==
  LET f == rd.stack[Len(rd.stack)]
      v == f.view
  IN CASE f.phase = "entry" ->
            IF isInvalid(v) THEN Return(rd, errResult(rd.op, ErrInvalid))
            ELSE [Goto(rd, "lookup") EXCEPT !.passed = TRUE]
       [] f.phase = "lookup" ->
            IF ~localHit(rd.op, v, rd.key) THEN Goto(rd, "parent")
            ELSE IF rd.op = "getValue"
            THEN Return(rd, localResult(rd.op, v, rd.key))
            ELSE [rd EXCEPT !.stack[Len(rd.stack)].phase = "exit",
                            !.stack[Len(rd.stack)].r = localResult(rd.op, v, rd.key)]
       [] f.phase = "parent" ->
            IF getParentTrie(v) = DB
            THEN [rd EXCEPT !.stack[Len(rd.stack)].phase = "exit",
                            !.stack[Len(rd.stack)].r =
                              fromParent(rd.op, dbResult(rd.op, rd.key))]
            ELSE [rd EXCEPT !.stack = Append(Goto(rd, "wait").stack,
                                             Frame(getParentTrie(v)))]
       [] f.phase = "exit" ->
            Return(rd, exitCheck(rd.op, v, f.r))

ReadOps == {"getValue", "getChildren"}

ReadBegin(op, t, key) ==
  /\ pc.reader = Idle
  /\ t \in created
  /\ pc' = [pc EXCEPT !.reader =
              [phase |-> "running", op |-> op, view |-> t, key |-> key,
               stack |-> <<Frame(t)>>, ret |-> Idle, passed |-> FALSE,
               overlap |-> FALSE]]
  /\ UNCHANGED <<created, parentTrie, invalidated, committed,
                 nodesAlreadyCalculated, calculateNodesOnce, childViews, values,
                 rootID, childrenChanges, dbNodes, dbValues, dbRootID, sema, issued>>

ReadStep ==
  /\ pc.reader.phase = "running"
  /\ pc' = [pc EXCEPT !.reader = readStep(pc.reader)]
  /\ UNCHANGED <<created, parentTrie, invalidated, committed,
                 nodesAlreadyCalculated, calculateNodesOnce, childViews, values,
                 rootID, childrenChanges, dbNodes, dbValues, dbRootID, sema, issued>>

ReadReturn ==
  /\ pc.reader.phase = "done"
  /\ pc' = [pc EXCEPT !.reader = Idle]
  /\ UNCHANGED <<created, parentTrie, invalidated, committed,
                 nodesAlreadyCalculated, calculateNodesOnce, childViews, values,
                 rootID, childrenChanges, dbNodes, dbValues, dbRootID, sema, issued>>

NextRead ==
  \/ \E ops \in Batches(SpecKeys, MaxOps - issued) :
       pc = NoThreads /\ NextView <= MaxReadViews /\ DBNewView(ops)
  \/ \E t \in Views, ops \in Batches(SpecKeys, MaxOps - issued) :
       \E order \in CalcOrders(t) :
         pc = NoThreads /\ NextView <= MaxReadViews /\ NewView(t, ops, order)
  \/ \E t \in Views : \E order \in CalcOrders(t) : CommitStart(t, order)
  \/ InvalidateNext
  \/ \E op \in ReadOps, t \in Views, key \in SpecKeys : ReadBegin(op, t, key)
  \/ ReadStep
  \/ ReadReturn

SpecRead == Init /\ [][NextRead]_vars

\* ------------------------------------- concurrent callers of calculateNodeIDs
\* GetMerkleRoot, GetProof, GetRangeProof, NewView and CommitToDB all start
\* with calculateNodeIDs; a caller here is a GetMerkleRoot.

\* a thread reaches calculateNodesOnce.Do on view t: the first caller runs
\* the function (its first statement is the validity check), the others wait
\* until the function has returned
CallBegin(th, t, order) ==
  /\ pc.callers[th] = Idle
  /\ t \in created
  /\ IF calculateNodesOnce[t] = "new"
     THEN /\ calculateNodesOnce' = [calculateNodesOnce EXCEPT ![t] = "running"]
          /\ pc' = [pc EXCEPT !.callers[th] =
                      [phase |-> "body", view |-> t, order |-> order,
                       invalidAtEntry |-> isInvalid(t)]]
     ELSE /\ pc' = [pc EXCEPT !.callers[th] = [phase |-> "wait", view |-> t]]
          /\ UNCHANGED calculateNodesOnce
  /\ UNCHANGED <<created, parentTrie, invalidated, committed,
                 nodesAlreadyCalculated, childViews, values, rootID,
                 childrenChanges, dbNodes, dbValues, dbRootID, sema, issued>>

\* what GetMerkleRoot returns to a caller whose calculateNodeIDs returned e
Returned(t, ran, e, id) ==
  [phase |-> "done", view |-> t, ran |-> ran, err |-> e,
   id |-> IF e = NoErr THEN id ELSE Empty]

\* the first caller runs the rest of the function and returns its err
BodyReturned(th, t, r) ==
  /\ r.err # Blocked
  /\ ApplyCalc(t, r)
  /\ childrenChanges' = r.cc
  /\ pc' = [pc EXCEPT !.callers[th] = Returned(t, TRUE, r.err, r.rootID)]

CallBody(th) ==
  /\ pc.callers[th].phase = "body"
  /\ BodyReturned(th, pc.callers[th].view,
                  onceBody(pc.callers[th].view, pc.callers[th].order,
                           pc.callers[th].invalidAtEntry))
  /\ UNCHANGED <<created, parentTrie, invalidated, committed, childViews, values,
                 dbNodes, dbValues, dbRootID, issued>>

\* Once.Do returns in a caller that did not run the function: its err is nil
CallWake(th) ==
  /\ pc.callers[th].phase = "wait"
  /\ calculateNodesOnce[pc.callers[th].view] = "done"
  /\ pc' = [pc EXCEPT !.callers[th] =
              Returned(pc.callers[th].view, FALSE, NoErr, rootID[pc.callers[th].view])]
  /\ UNCHANGED <<created, parentTrie, invalidated, committed,
                 nodesAlreadyCalculated, calculateNodesOnce, childViews, values,
                 rootID, childrenChanges, dbNodes, dbValues, dbRootID, sema, issued>>

NextOnce ==
  \/ \E ops \in Batches(SpecKeys, MaxOps - issued) :
       NextView <= MaxOnceViews /\ DBNewView(ops)
  \/ \E t \in Views : \E order \in CalcOrders(t) :
       calculateNodesOnce[t] # "running" /\ CommitToDB(t, order, TRUE)
  \/ \E th \in Callers, t \in Views : \E order \in CalcOrders(t) :
       CallBegin(th, t, order)
  \/ \E th \in Callers : CallBody(th)
  \/ \E th \in Callers : CallWake(th)

SpecOnce == Init /\ [][NextOnce]_vars

\* ------------------------------------- the goroutines of calculateNodeIDsHelper
\* One calculateNodeIDs, one statement of one call of calculateNodeIDsHelper
\* at a time.  pc.hash.frames holds the calls in progress by key; a frame has
\* the locals of its call: children, value, the err that all the closures of
\* the call assign and read, the child indexes the loop has not reached
\* (todo), the closures in progress (calls: child index -> whether it runs in
\* a goroutine of eg, whether it has assigned and the error the call it made
\* returned to it), the first error given to
\* eg (egErr) and, once the call has returned, what it returned (ret).
\* pc.others are the permits of calculateNodeIDsSema that the helpers of other
\* views hold.

\* the call of calculateNodeIDsHelper(key, value), at its loop: got is what
\* getChildren(key) returned
NewFrame(value, got) ==
  [state |-> IF got.err # NoErr THEN "returned" ELSE "loop",
   children |-> Kids(got.children), value |-> value, err |-> got.err,
   todo |-> DOMAIN Kids(got.children), calls |-> <<>>, egErr |-> NoErr,
   ret |-> [id |-> Empty, err |-> got.err]]

\* a call whose result has been taken: it stays for as long as goroutines it
\* started are running
Consume(frames, key) ==
  IF DOMAIN frames[key].calls = {} THEN MapDel(frames, key)
  ELSE [frames EXCEPT ![key].state = "gone"]

Hashing == pc.hash.phase = "hashing"

HashFrames == IF pc.hash = Idle THEN {} ELSE DOMAIN pc.hash.frames

HashUnchanged ==
  UNCHANGED <<created, parentTrie, invalidated, committed, childViews, values,
              dbNodes, dbValues, dbRootID, issued>>

\* calculateNodeIDs up to the call of calculateNodeIDsHelper(emptyKey, val):
\* cc1 are the node edits after the loop over the changes, sequential is what
\* the helper gives when every child is computed inline, one after the other
HashAcquired(t, cc1, val, sequential) ==
  /\ val.err = NoErr
  /\ childrenChanges' = cc1
  /\ sema' = sema - 1
  /\ calculateNodesOnce' = [calculateNodesOnce EXCEPT ![t] = "running"]
  /\ pc' = [pc EXCEPT !.hash =
              [phase |-> "hashing", view |-> t, err |-> NoErr, ways |-> {},
               sequential |-> [id |-> sequential.id, cc |-> sequential.cc[t]],
               frames |-> MapPut(<<>>, emptyKey,
                                 NewFrame(val.val, getChildren(cc1, t, emptyKey)))]]

HashApplied(t, cc1, val) ==
  HashAcquired(t, cc1, val, calculateNodeIDsHelper(cc1, t, emptyKey, val.val))

HashEdited(t, edits) ==
  /\ edits.err = NoErr
  /\ HashApplied(t, World(t, edits.c), getValue(t, emptyKey))

HashBegin(t, order) ==
  /\ pc.hash = Idle
  /\ t \in created
  /\ calculateNodesOnce[t] = "new"
  /\ ~isInvalid(t)
  /\ sema > 0
  /\ HashEdited(t, applyValueChanges(childrenChanges[t], t, order, 1))
  /\ UNCHANGED <<nodesAlreadyCalculated, rootID>>
  /\ HashUnchanged

\* the closure of the child at childIndex starts, in a goroutine of eg when
\* TryAcquire gave a permit and in this goroutine otherwise
VisitCall(key, childIndex, childPath, changedValue) ==
  /\ sema' = IF sema > 0 THEN sema - 1 ELSE sema
  /\ pc' = [pc EXCEPT
              !.hash.ways = @ \cup {IF sema > 0 THEN "goroutine" ELSE "inline"},
              !.hash.frames =
                MapPut([@ EXCEPT ![key].todo = @ \ {childIndex},
                                 ![key].calls =
                                   MapPut(@, childIndex,
                                          [go |-> sema > 0, assigned |-> FALSE,
                                           got |-> NoErr])],
                       childPath,
                       NewFrame(changedValue,
                                getChildren(childrenChanges, pc.hash.view,
                                            childPath)))]

VisitChild(t, key, childIndex, ch, childPath) ==
  IF \/ childPath \notin DOMAIN childrenChanges[t] /\ childPath \notin DOMAIN values[t]
     \/ ch.id # Empty
  THEN /\ pc' = [pc EXCEPT !.hash.frames[key].todo = @ \ {childIndex}]
       /\ UNCHANGED sema
  ELSE VisitCall(key, childIndex, childPath,
                 IF childPath \in DOMAIN values[t] THEN values[t][childPath].after
                 ELSE Nothing)

\* one round of  for childIndex, child := range children
Visit(key, childIndex) ==
  /\ key \in HashFrames
  /\ pc.hash.frames[key].state = "loop"
  /\ childIndex \in pc.hash.frames[key].todo
  /\ \A i \in DOMAIN pc.hash.frames[key].calls : pc.hash.frames[key].calls[i].go
  /\ VisitChild(pc.hash.view, key, childIndex,
                pc.hash.frames[key].children[childIndex],
                Extend(key, childIndex,
                       pc.hash.frames[key].children[childIndex].compressedKey))
  /\ UNCHANGED <<nodesAlreadyCalculated, calculateNodesOnce, rootID,
                 childrenChanges>>
  /\ HashUnchanged

\* eg.Wait returns
JoinedNoWait(f) == TRUE

Joined(f) == DOMAIN f.calls = {}

\* the end of calculateNodeIDsHelper: eg.Wait, then calculateID
HelperReturn(key) ==
  /\ key \in HashFrames
  /\ pc.hash.frames[key].state = "loop"
  /\ pc.hash.frames[key].todo = {}
  /\ \A i \in DOMAIN pc.hash.frames[key].calls : pc.hash.frames[key].calls[i].go
  /\ Joined(pc.hash.frames[key])
  /\ pc' = [pc EXCEPT
              !.hash.frames[key].state = "returned",
              !.hash.frames[key].ret =
                IF pc.hash.frames[key].egErr # NoErr
                THEN [id |-> Empty, err |-> pc.hash.frames[key].egErr]
                ELSE [id |-> calculateID(key, pc.hash.frames[key].children,
                                         pc.hash.frames[key].value),
                      err |-> NoErr]]
  /\ UNCHANGED <<nodesAlreadyCalculated, calculateNodesOnce, rootID,
                 childrenChanges, sema>>
  /\ HashUnchanged

\* children[currentIndex].id, err = t.calculateNodeIDsHelper(childPath, ...)
\* in the closure of the child at childIndex: ret is what the call returned
Assigned(key, childIndex, childPath, ret) ==
  /\ childrenChanges' =
       writeChildID(childrenChanges, key, childIndex,
                    pc.hash.frames[key].children[childIndex].ptr, ret.id)
  /\ pc' = [pc EXCEPT
              !.hash.frames =
                Consume([@ EXCEPT ![key].children[childIndex].id = ret.id,
                                  ![key].err = ret.err,
                                  ![key].calls[childIndex].assigned = TRUE,
                                  ![key].calls[childIndex].got = ret.err],
                        childPath)]

Assign(key, childIndex) ==
  /\ key \in HashFrames
  /\ childIndex \in DOMAIN pc.hash.frames[key].calls
  /\ ~pc.hash.frames[key].calls[childIndex].assigned
  /\ Extend(key, childIndex,
            pc.hash.frames[key].children[childIndex].compressedKey) \in HashFrames
  /\ pc.hash.frames[Extend(key, childIndex,
       pc.hash.frames[key].children[childIndex].compressedKey)].state = "returned"
  /\ Assigned(key, childIndex,
              Extend(key, childIndex,
                     pc.hash.frames[key].children[childIndex].compressedKey),
              pc.hash.frames[Extend(key, childIndex,
                pc.hash.frames[key].children[childIndex].compressedKey)].ret)
  /\ UNCHANGED <<nodesAlreadyCalculated, calculateNodesOnce, rootID, sema>>
  /\ HashUnchanged

\* the frame once the closure of the child at childIndex has returned e
Checked(f, childIndex, e) ==
  IF f.calls[childIndex].go
  THEN [f EXCEPT !.calls = MapDel(@, childIndex),
                 !.egErr = IF @ = NoErr THEN e ELSE @]
  ELSE IF e # NoErr /\ f.state = "loop"
  THEN [f EXCEPT !.calls = MapDel(@, childIndex), !.state = "returned",
                 !.ret = [id |-> Empty, err |-> e]]
  ELSE [f EXCEPT !.calls = MapDel(@, childIndex)]

Dropped(frames, key) ==
  IF frames[key].state = "gone" /\ DOMAIN frames[key].calls = {}
  THEN MapDel(frames, key) ELSE frames

\* if err != nil { return err }; return nil  in the closure of the child at
\* childIndex, and what follows its return: Release and the errgroup for a
\* goroutine, the return of the helper on an error for a closure run inline
Check(key, childIndex) ==
  /\ key \in HashFrames
  /\ childIndex \in DOMAIN pc.hash.frames[key].calls
  /\ pc.hash.frames[key].calls[childIndex].assigned
  /\ sema' = IF pc.hash.frames[key].calls[childIndex].go THEN sema + 1 ELSE sema
  /\ pc' = [pc EXCEPT
              !.hash.frames =
                Dropped([@ EXCEPT ![key] = Checked(@, childIndex, @.err)], key)]
  /\ UNCHANGED <<nodesAlreadyCalculated, calculateNodesOnce, rootID,
                 childrenChanges>>
  /\ HashUnchanged

\* t.changes.rootID, err = t.calculateNodeIDsHelper(emptyKey, val)  and the
\* rest of the function handed to calculateNodesOnce.Do
HashEnded(t, ret) ==
  /\ rootID' = [rootID EXCEPT ![t] = ret.id]
  /\ sema' = IF ret.err # NoErr THEN sema ELSE sema + 1
  /\ nodesAlreadyCalculated' = [nodesAlreadyCalculated EXCEPT ![t] = TRUE]
  /\ calculateNodesOnce' = [calculateNodesOnce EXCEPT ![t] = "done"]
  /\ pc' = [pc EXCEPT
              !.hash.phase = "done",
              !.hash.err = IF ret.err # NoErr THEN ret.err
                           ELSE IF isInvalid(t) THEN ErrInvalid ELSE NoErr,
              !.hash.frames = Consume(@, emptyKey)]

HashEnd ==
  /\ Hashing
  /\ emptyKey \in HashFrames
  /\ pc.hash.frames[emptyKey].state = "returned"
  /\ HashEnded(pc.hash.view, pc.hash.frames[emptyKey].ret)
  /\ UNCHANGED childrenChanges
  /\ HashUnchanged

\* the caller has its answer and no goroutine is left
HashReset ==
  /\ pc.hash # Idle
  /\ pc.hash.phase = "done"
  /\ HashFrames = {}
  /\ pc' = [pc EXCEPT !.hash = Idle]
  /\ UNCHANGED <<nodesAlreadyCalculated, calculateNodesOnce, rootID,
                 childrenChanges, sema>>
  /\ HashUnchanged

\* the helper of another view takes a permit (TryAcquire) ...
OtherTake ==
  /\ pc.hash # Idle
  /\ Hashing
  /\ pc.others < MaxOthers
  /\ sema > 0
  /\ sema' = sema - 1
  /\ pc' = [pc EXCEPT !.others = @ + 1]
  /\ UNCHANGED <<nodesAlreadyCalculated, calculateNodesOnce, rootID,
                 childrenChanges>>
  /\ HashUnchanged

\* ... and gives it back (Release)
OtherGive ==
  /\ pc.others > 0
  /\ sema' = sema + 1
  /\ pc' = [pc EXCEPT !.others = @ - 1]
  /\ UNCHANGED <<nodesAlreadyCalculated, calculateNodesOnce, rootID,
                 childrenChanges>>
  /\ HashUnchanged

NextHash ==
  \/ \E ops \in Batches(Keys, MaxHashOps - issued) :
       pc.hash = Idle /\ NextView <= MaxHashViews /\ DBNewView(ops)
  \/ \E t \in Views, ops \in Batches(Keys, MaxHashOps - issued) :
       \E order \in CalcOrders(t) :
         pc.hash = Idle /\ NextView <= MaxHashViews /\ NewView(t, ops, order)
  \/ \E t \in Views : \E order \in CalcOrders(t) :
       /\ calculateNodesOnce[t] # "running"
       /\ sema > 0 \/ calculateNodesOnce[t] = "done"
       /\ CommitToDB(t, order, TRUE)
  \/ \E t \in Views : \E order \in CalcOrders(t) : HashBegin(t, order)
  \/ \E key \in Keys, childIndex \in Tokens : Visit(key, childIndex)
  \/ \E key \in Keys : HelperReturn(key)
  \/ \E key \in Keys, childIndex \in Tokens : Assign(key, childIndex)
  \/ \E key \in Keys, childIndex \in Tokens : Check(key, childIndex)
  \/ HashEnd
  \/ HashReset
  \/ OtherTake
  \/ OtherGive

SpecHash == Init /\ [][NextHash]_vars

\* --------------------------------------------- CommitToDB under its locks
\* The committers run CommitToDB a statement at a time: db.commitLock.Lock,
\* t.commitLock.Lock, calculateNodeIDs, db.commitChanges, t.committed = true,
\* and the deferred unlocks.  Another thread (the maker) runs NewView on a
\* view: the validity check, t.commitLock.RLock, the rest, RUnlock.
\* pc.dbCommitLock is the holder of db.commitLock (0: free), pc.commitLock
\* the holder (w) and the number of readers (r) of each view's commitLock.

CommitterUnchanged ==
  UNCHANGED <<created, parentTrie, invalidated, committed, nodesAlreadyCalculated,
              calculateNodesOnce, childViews, values, rootID, childrenChanges,
              dbNodes, dbValues, dbRootID, sema, issued>>

\* t.db.commitLock.Lock() without waiting for the lock
LockDBTaken(th) == TRUE

\* t.db.commitLock.Lock() can return in thread th
LockDB(th) == pc.dbCommitLock = 0

\* t.commitLock.RLock() without waiting for the lock
RLockViewTaken(t) == TRUE

\* t.commitLock.RLock() can return
RLockView(t) == pc.commitLock[t].w = 0

CommitBegin(th, t) ==
  /\ pc.committers[th] = Idle
  /\ t \in created
  /\ LockDB(th)
  /\ pc' = [pc EXCEPT !.dbCommitLock = th,
                      !.committers[th] = [phase |-> "dbLocked", view |-> t]]
  /\ CommitterUnchanged

\* t.commitLock.Lock()
CommitLockView(th) ==
  /\ pc.committers[th].phase = "dbLocked"
  /\ pc.commitLock[pc.committers[th].view] = [w |-> 0, r |-> 0]
  /\ pc' = [pc EXCEPT !.commitLock[pc.committers[th].view].w = th,
                      !.committers[th].phase = "locked"]
  /\ CommitterUnchanged

CommitCalculated(th, t, r) ==
  /\ r.err # Blocked
  /\ ApplyCalc(t, r)
  /\ childrenChanges' = r.cc
  /\ pc' = [pc EXCEPT !.committers[th].phase =
              IF r.err = NoErr THEN "calculated" ELSE "returning"]

\* if err := t.calculateNodeIDs(ctx); err != nil { return err }
CommitCalc(th, order) ==
  /\ pc.committers[th].phase = "locked"
  /\ order \in CalcOrders(pc.committers[th].view)
  /\ CommitCalculated(th, pc.committers[th].view,
                      calculateNodeIDs(pc.committers[th].view, order))
  /\ UNCHANGED <<created, parentTrie, invalidated, committed, childViews, values,
                 dbNodes, dbValues, dbRootID, issued>>

\* if err := t.db.commitChanges(ctx, t); err != nil { return err }
CommitWrite(th) ==
  /\ pc.committers[th].phase = "calculated"
  /\ IF commitChanges(pc.committers[th].view, TRUE) = NoErr
     THEN /\ Written(pc.committers[th].view, NoCalc(pc.committers[th].view),
                     InvalidatedExcept(pc.committers[th].view))
          /\ pc' = [pc EXCEPT !.committers[th].phase = "written"]
     ELSE /\ pc' = [pc EXCEPT !.committers[th].phase = "returning"]
          /\ UNCHANGED <<dbNodes, dbValues, dbRootID, invalidated, childViews,
                         parentTrie>>
  /\ UNCHANGED <<created, committed, nodesAlreadyCalculated, calculateNodesOnce,
                 values, rootID, childrenChanges, sema, issued>>

\* t.committed = true
CommitFlag(th) ==
  /\ pc.committers[th].phase = "written"
  /\ committed' = [committed EXCEPT ![pc.committers[th].view] = TRUE]
  /\ pc' = [pc EXCEPT !.committers[th].phase = "returning"]
  /\ UNCHANGED <<created, parentTrie, invalidated, nodesAlreadyCalculated,
                 calculateNodesOnce, childViews, values, rootID, childrenChanges,
                 dbNodes, dbValues, dbRootID, sema, issued>>

\* the deferred t.commitLock.Unlock() and t.db.commitLock.Unlock()
CommitUnlock(th) ==
  /\ pc.committers[th].phase = "returning"
  /\ pc' = [pc EXCEPT !.dbCommitLock = 0,
                      !.commitLock[pc.committers[th].view].w = 0,
                      !.committers[th] = Idle]
  /\ CommitterUnchanged

\* NewView(t, ops) passes its validity check
MakerBegin(t, ops) ==
  /\ pc.maker = Idle
  /\ t \in created
  /\ NextView \in Views
  /\ ~isInvalid(t)
  /\ pc' = [pc EXCEPT !.maker = [phase |-> "checked", view |-> t, ops |-> ops]]
  /\ issued' = issued + Len(ops)
  /\ UNCHANGED <<created, parentTrie, invalidated, committed,
                 nodesAlreadyCalculated, calculateNodesOnce, childViews, values,
                 rootID, childrenChanges, dbNodes, dbValues, dbRootID, sema>>

\* t.commitLock.RLock()
MakerRLock ==
  /\ pc.maker.phase = "checked"
  /\ RLockView(pc.maker.view)
  /\ pc' = [pc EXCEPT !.commitLock[pc.maker.view].r = @ + 1,
                      !.maker.phase = "rlocked"]
  /\ CommitterUnchanged

\* NewView from  if t.committed  on
newViewLocked(t, ops, order) ==
  IF committed[t] THEN newViewOn(NoErr, NoCalc(t), getParentTrie(t), ops)
  ELSE newViewCalculated(t, ops, calculateNodeIDs(t, order))

\* the rest of NewView, and the deferred RUnlock
MakerBuild(order) ==
  /\ pc.maker.phase = "rlocked"
  /\ order \in CalcOrders(pc.maker.view)
  /\ NextView \in Views
  /\ newViewLocked(pc.maker.view, pc.maker.ops, order).calc.err # Blocked
  /\ NewViewReturned(pc.maker.view,
                     newViewLocked(pc.maker.view, pc.maker.ops, order))
  /\ pc' = [pc EXCEPT !.commitLock[pc.maker.view].r = @ - 1, !.maker = Idle]
  /\ UNCHANGED <<invalidated, committed, dbNodes, dbValues, dbRootID, issued>>

\* the orders a view of SpecCommit may apply its pending values in
CommitOrders == UNION {Orders(K) : K \in SUBSET SpecKeys}

NextCommit ==
  \/ \E ops \in Batches(SpecKeys, MaxOps - issued) :
       NextView <= MaxCommitViews /\ DBNewView(ops)
  \/ \E th \in Committers, t \in Views : CommitBegin(th, t)
  \/ \E th \in Committers : CommitLockView(th)
  \/ \E th \in Committers, order \in CommitOrders : CommitCalc(th, order)
  \/ \E th \in Committers : CommitWrite(th)
  \/ \E th \in Committers : CommitFlag(th)
  \/ \E th \in Committers : CommitUnlock(th)
  \/ \E t \in Views, ops \in Batches(SpecKeys, MaxOps - issued) :
       NextView <= MaxCommitViews /\ MakerBegin(t, ops)
  \/ MakerRLock
  \/ \E order \in CommitOrders : MakerBuild(order)

SpecCommit == Init /\ [][NextCommit]_vars

\* ------------------------------------------- callers under fair scheduling
\* The callers of SpecOnce over more views, whose batches write or delete the
\* root key.  A caller that has reached calculateNodesOnce.Do goes on whenever
\* it can: a thread that is not waiting for a lock, a Once or a permit runs.

LiveCallers == 1 .. NumLiveCallers

CommitNotHeld(t, order) ==
  /\ calculateNodesOnce[t] # "running"
  /\ commitToDB(t, order, TRUE).err # Blocked

\* the function handed to calculateNodesOnce.Do can run to its end in thread
\* th: it is not held at calculateNodeIDsSema.Acquire (line 238)
BodyCanRun(th) ==
  /\ pc.callers[th].phase = "body"
  /\ onceBody(pc.callers[th].view, pc.callers[th].order,
              pc.callers[th].invalidAtEntry).err # Blocked

NextLive ==
  \/ \E ops \in Batches({emptyKey}, MaxLiveOps - issued) :
       NextView <= MaxLiveViews /\ DBNewView(ops)
  \/ \E t \in Views : \E order \in CalcOrders(t) :
       CommitNotHeld(t, order) /\ CommitToDB(t, order, TRUE)
  \/ \E th \in LiveCallers, t \in Views : \E order \in CalcOrders(t) :
       CallBegin(th, t, order)
  \/ \E th \in LiveCallers : CallBody(th)
  \/ \E th \in LiveCallers : CallWake(th)

\* weak fairness of the two steps of a caller.  CallBody(th) is enabled
\* exactly when BodyCanRun(th) and a CallBody(th) step ends it, so
\* WF_vars(CallBody(th)) is []<>~BodyCanRun(th), written in that form
LiveFair ==
  \A th \in LiveCallers : WF_vars(CallWake(th)) /\ []<>~BodyCanRun(th)

SpecLive == Init /\ [][NextLive]_vars /\ LiveFair

\* ------------------------------------------------ the validityTrackingLock
\* Threads (lockers) call getValue (and with it isInvalid and getParentTrie),
\* NewView and CommitToDB on the views, one lock operation at a time.  A locker's record
\* holds its call stack (frames [fn, view, at, i, nt]: the function, its
\* receiver, the position in its body, a loop index and NewView's new view)
\* and held, the validityTrackingLocks it holds, in the order it acquired
\* them, as [view, mode] with mode "w" (Lock) or "r" (RLock).
LockFrame(fn, v, at) == [fn |-> fn, view |-> v, at |-> at, i |-> 1, nt |-> Idle]

heldBy(th) == IF pc.lockers[th] = Idle THEN <<>> ELSE pc.lockers[th].held

\* validityTrackingLock.Lock() of view v can return: nobody holds the lock
CanLock(v) ==
  \A th \in Lockers : \A i \in DOMAIN heldBy(th) : heldBy(th)[i].view # v

\* validityTrackingLock.RLock() of view v can return: nobody holds it for
\* writing
CanRLock(v) ==
  \A th \in Lockers : \A i \in DOMAIN heldBy(th) :
    ~(heldBy(th)[i].view = v /\ heldBy(th)[i].mode = "w")

inCall(th, fn) ==
  /\ pc.lockers[th] # Idle
  /\ pc.lockers[th].stack[Len(pc.lockers[th].stack)].fn = fn

topFrame(th) == pc.lockers[th].stack[Len(pc.lockers[th].stack)]

\* another locker runs op on the view
otherRuns(th, op, v) ==
  \E o \in Lockers \ {th} :
    /\ pc.lockers[o] # Idle
    /\ pc.lockers[o].stack[1].fn = op
    /\ pc.lockers[o].stack[1].view = v

\* the locks held after an Unlock that does not release
unlockedKept(held) == held

\* the locks held after the deferred Unlock / RUnlock of the last one taken
unlocked(held) == SubSeq(held, 1, Len(held) - 1)

\* the locker after its top frame returned ret (and err, for getValue)
returned(l, held, ret, err) ==
  IF Len(l.stack) = 1 THEN Idle
  ELSE [l EXCEPT !.stack = SubSeq(@, 1, Len(@) - 1), !.held = held,
                 !.ret = ret, !.err = err]

\* the locker after its top frame moved to position at and called fn on v
called(l, at, i, fn, v) ==
  [l EXCEPT !.stack = [@ EXCEPT ![Len(@)].at = at, ![Len(@)].i = i]
                        \o <<LockFrame(fn, v, "lock")>>]

LockerStarts(fn, v) ==
  [stack |-> <<LockFrame(fn, v, IF fn = "getValue" THEN "entry" ELSE "lock")>>,
   held |-> <<>>, ret |-> FALSE, err |-> FALSE]

\* a thread calls fn, here getValue(emptyKey), on view t
LockCall(th, fn, t) ==
  /\ pc.lockers[th] = Idle
  /\ t \in created
  /\ pc' = [pc EXCEPT !.lockers[th] = LockerStarts(fn, t)]
  /\ UNCHANGED <<created, parentTrie, invalidated, committed,
                 nodesAlreadyCalculated, calculateNodesOnce, childViews, values,
                 rootID, childrenChanges, dbNodes, dbValues, dbRootID, sema,
                 issued>>

\* isInvalid / getParentTrie: RLock, and the field is read
LockRead(th) ==
  /\ inCall(th, "isInvalid") \/ inCall(th, "getParentTrie")
  /\ topFrame(th).at = "lock"
  /\ CanRLock(topFrame(th).view)
  /\ pc' = [pc EXCEPT
              !.lockers[th].held = Append(@, [view |-> topFrame(th).view,
                                              mode |-> "r"]),
              !.lockers[th].stack[Len(pc.lockers[th].stack)].at = "locked",
              !.lockers[th].ret =
                 IF topFrame(th).fn = "isInvalid"
                 THEN invalidated[topFrame(th).view]
                 ELSE parentTrie[topFrame(th).view]]
  /\ UNCHANGED <<created, parentTrie, invalidated, committed,
                 nodesAlreadyCalculated, calculateNodesOnce, childViews, values,
                 rootID, childrenChanges, dbNodes, dbValues, dbRootID, sema,
                 issued>>

\* isInvalid / getParentTrie / updateParent return: the deferred unlock
LockReturn(th) ==
  /\ \/ inCall(th, "isInvalid")
     \/ inCall(th, "getParentTrie")
     \/ inCall(th, "updateParent")
  /\ topFrame(th).at = "locked"
  /\ pc' = [pc EXCEPT !.lockers[th] =
              returned(@, unlocked(@.held), @.ret, @.err)]
  /\ UNCHANGED <<created, parentTrie, invalidated, committed,
                 nodesAlreadyCalculated, calculateNodesOnce, childViews, values,
                 rootID, childrenChanges, dbNodes, dbValues, dbRootID, sema,
                 issued>>

\* getValue(emptyKey), from one call it makes to the next
getValueStep(l, f) ==
  CASE f.at = "entry" -> called(l, "checked", 1, "isInvalid", f.view)
    [] f.at = "checked" ->
         IF l.ret THEN returned(l, l.held, l.ret, TRUE)
         ELSE IF emptyKey \in DOMAIN values[f.view]
         THEN returned(l, l.held, l.ret, FALSE)
         ELSE called(l, "parent", 1, "getParentTrie", f.view)
    [] f.at = "parent" ->
         IF l.ret = DB
         THEN [l EXCEPT !.stack[Len(l.stack)].at = "back", !.err = FALSE]
         ELSE [called(l, "back", 1, "getValue", l.ret)
                 EXCEPT !.stack[Len(l.stack) + 1].at = "entry"]
    [] f.at = "back" ->
         IF l.err THEN returned(l, l.held, l.ret, TRUE)
         ELSE called(l, "exit", 1, "isInvalid", f.view)
    [] f.at = "exit" -> returned(l, l.held, l.ret, l.ret)

LockGetValue(th) ==
  /\ inCall(th, "getValue")
  /\ pc' = [pc EXCEPT !.lockers[th] = getValueStep(@, topFrame(th))]
  /\ UNCHANGED <<created, parentTrie, invalidated, committed,
                 nodesAlreadyCalculated, calculateNodesOnce, childViews, values,
                 rootID, childrenChanges, dbNodes, dbValues, dbRootID, sema,
                 issued>>

\* the views that NewView calls in progress are about to register
Registering == Cardinality({th \in Lockers : inCall(th, "NewView")})

\* a commit is in progress: db.commitLock is held
Committing ==
  \E th \in Lockers :
    pc.lockers[th] # Idle /\ pc.lockers[th].stack[1].fn = "commitChanges"

\* NewView up to validityTrackingLock.Lock(): a call that returns before it
\* (invalid, committed, or an error) is over in this step
LockNewView(th, t, ops, order) ==
  /\ pc.lockers[th] = Idle
  /\ t \in created
  /\ NextView + Registering <= MaxLockViews
  /\ CanRLock(t)
  /\ ~otherRuns(th, "commitChanges", t)
  /\ ~(committed[t] /\ Committing)
  /\ newView(t, ops, order).calc.err # Blocked
  /\ issued' = issued + Len(ops)
  /\ UNCHANGED <<invalidated, committed, dbNodes, dbValues, dbRootID>>
  /\ ApplyCalc(t, newView(t, ops, order).calc)
  /\ IF newView(t, ops, order).err # NoErr \/ newView(t, ops, order).parent # t
     THEN /\ Register(newView(t, ops, order).calc.cc,
                      newView(t, ops, order).parent,
                      newView(t, ops, order).nt, newView(t, ops, order).err)
          /\ UNCHANGED pc
     ELSE /\ childrenChanges' = newView(t, ops, order).calc.cc
          /\ pc' = [pc EXCEPT !.lockers[th] =
                      [LockerStarts("NewView", t)
                         EXCEPT !.stack[1].nt = newView(t, ops, order).nt]]
          /\ UNCHANGED <<created, parentTrie, values, childViews>>

\* NewView: validityTrackingLock.Lock()
LockNewViewLock(th) ==
  /\ inCall(th, "NewView")
  /\ topFrame(th).at = "lock"
  /\ CanLock(topFrame(th).view)
  /\ pc' = [pc EXCEPT
              !.lockers[th].held = Append(@, [view |-> topFrame(th).view,
                                              mode |-> "w"]),
              !.lockers[th].stack[1].at = "locked"]
  /\ UNCHANGED <<created, parentTrie, invalidated, committed,
                 nodesAlreadyCalculated, calculateNodesOnce, childViews, values,
                 rootID, childrenChanges, dbNodes, dbValues, dbRootID, sema,
                 issued>>

\* NewView that registers without looking at the flag
invalidatedCheckSkipped(flag) == NoErr

\* NewView, with the lock: if t.invalidated { return nil, ErrInvalid }
invalidatedCheck(flag) == IF flag THEN ErrInvalid ELSE NoErr

\* NewView: the check of t.invalidated, the append and the deferred Unlock
LockNewViewRegister(th) ==
  /\ inCall(th, "NewView")
  /\ topFrame(th).at = "locked"
  /\ Register(childrenChanges, topFrame(th).view, topFrame(th).nt,
              invalidatedCheck(invalidated[topFrame(th).view]))
  /\ pc' = [pc EXCEPT !.lockers[th] = Idle]
  /\ UNCHANGED <<invalidated, committed, nodesAlreadyCalculated,
                 calculateNodesOnce, rootID, dbNodes, dbValues, dbRootID, sema,
                 issued>>

\* CommitToDB up to the database's write; merkleDB.commitChanges then
\* invalidates the other children of the database and re-parents the
\* children of the view, one call at a time
LockCommit(th, t, order) ==
  /\ pc.lockers[th] = Idle
  /\ t \in created
  /\ ~Committing
  /\ ~otherRuns(th, "NewView", t)
  /\ CanRLock(t)
  /\ commitToDB(t, order, TRUE).calc.err # Blocked
  /\ ApplyCalc(t, commitToDB(t, order, TRUE).calc)
  /\ childrenChanges' = commitToDB(t, order, TRUE).calc.cc
  /\ IF commitToDB(t, order, TRUE).err = NoErr
     THEN /\ dbNodes' = WriteNodes(dbNodes, commitToDB(t, order, TRUE).calc.cc[t])
          /\ dbValues' = WriteValues(dbValues, values[t])
          /\ dbRootID' = commitToDB(t, order, TRUE).calc.rootID
          /\ pc' = [pc EXCEPT !.lockers[th] =
                      [LockerStarts("commitChanges", t)
                         EXCEPT !.stack[1].at = "invalidate"]]
     ELSE UNCHANGED <<dbNodes, dbValues, dbRootID, pc>>
  /\ UNCHANGED <<created, parentTrie, invalidated, committed, childViews,
                 values, issued>>

\* merkleDB.commitChanges: the next call of invalidate or updateParent, and
\* at the end the children of the view become children of the database and
\* commitToDB sets t.committed
LockCommitStep(th) ==
  /\ inCall(th, "commitChanges")
  /\ LET f == topFrame(th)
         list == IF f.at = "invalidate" THEN childViews[DB]
                 ELSE childViews[f.view]
     IN IF f.i <= Len(list)
        THEN /\ pc' = [pc EXCEPT !.lockers[th] =
                         IF f.at = "invalidate" /\ list[f.i] = f.view
                         THEN [@ EXCEPT !.stack[1].i = f.i + 1]
                         ELSE called(@, f.at, f.i + 1, f.at, list[f.i])]
             /\ UNCHANGED <<childViews, committed>>
        ELSE IF f.at = "invalidate"
        THEN /\ pc' = [pc EXCEPT !.lockers[th].stack[1].at = "updateParent",
                                 !.lockers[th].stack[1].i = 1]
             /\ UNCHANGED <<childViews, committed>>
        ELSE /\ pc' = [pc EXCEPT !.lockers[th] = Idle]
             /\ childViews' = [childViews EXCEPT ![DB] = childViews[f.view],
                                                 ![f.view] = <<>>]
             /\ committed' = [committed EXCEPT ![f.view] = TRUE]
  /\ UNCHANGED <<created, parentTrie, invalidated, nodesAlreadyCalculated,
                 calculateNodesOnce, values, rootID, childrenChanges, dbNodes,
                 dbValues, dbRootID, sema, issued>>

\* updateParent: Lock, and the parent is set
LockUpdateParent(th) ==
  /\ inCall(th, "updateParent")
  /\ topFrame(th).at = "lock"
  /\ CanLock(topFrame(th).view)
  /\ parentTrie' = updateParent(parentTrie, topFrame(th).view, DB)
  /\ pc' = [pc EXCEPT
              !.lockers[th].held = Append(@, [view |-> topFrame(th).view,
                                              mode |-> "w"]),
              !.lockers[th].stack[Len(pc.lockers[th].stack)].at = "locked"]
  /\ UNCHANGED <<created, invalidated, committed, nodesAlreadyCalculated,
                 calculateNodesOnce, childViews, values, rootID,
                 childrenChanges, dbNodes, dbValues, dbRootID, sema, issued>>

\* invalidate: Lock, and the flag is set
LockInvalidate(th) ==
  /\ inCall(th, "invalidate")
  /\ topFrame(th).at = "lock"
  /\ CanLock(topFrame(th).view)
  /\ invalidated' = [invalidated EXCEPT ![topFrame(th).view] = TRUE]
  /\ pc' = [pc EXCEPT
              !.lockers[th].held = Append(@, [view |-> topFrame(th).view,
                                              mode |-> "w"]),
              !.lockers[th].stack[Len(pc.lockers[th].stack)].at = "invalidate"]
  /\ UNCHANGED <<created, parentTrie, committed, nodesAlreadyCalculated,
                 calculateNodesOnce, childViews, values, rootID,
                 childrenChanges, dbNodes, dbValues, dbRootID, sema, issued>>

\* invalidate, with the lock: the next child is invalidated, and after the
\* last one the list is cleared and the deferred Unlock runs
LockInvalidateStep(th) ==
  /\ inCall(th, "invalidate")
  /\ topFrame(th).at = "invalidate"
  /\ LET f == topFrame(th)
     IN IF f.i <= Len(childViews[f.view])
        THEN /\ pc' = [pc EXCEPT !.lockers[th] =
                         called(@, "invalidate", f.i + 1, "invalidate",
                                childViews[f.view][f.i])]
             /\ UNCHANGED childViews
        ELSE /\ pc' = [pc EXCEPT !.lockers[th] =
                         returned(@, unlocked(@.held), @.ret, @.err)]
             /\ childViews' = [childViews EXCEPT ![f.view] = <<>>]
  /\ UNCHANGED <<created, parentTrie, invalidated, committed,
                 nodesAlreadyCalculated, calculateNodesOnce, values, rootID,
                 childrenChanges, dbNodes, dbValues, dbRootID, sema, issued>>

\* db.NewView holds db.commitLock for reading
LockDBNewView(ops) ==
  /\ ~Committing
  /\ NextView + Registering <= MaxLockViews
  /\ DBNewView(ops)

NextLock ==
  \/ \E ops \in Batches({emptyKey}, MaxLockOps - issued) : LockDBNewView(ops)
  \/ \E th \in Lockers, t \in Views : LockCall(th, "getValue", t)
  \/ \E th \in Lockers : LockRead(th)
  \/ \E th \in Lockers : LockReturn(th)
  \/ \E th \in Lockers : LockGetValue(th)
  \/ \E th \in Lockers, t \in Views :
       \E ops \in Batches({emptyKey}, MaxLockOps - issued) :
         \E order \in CalcOrders(t) : LockNewView(th, t, ops, order)
  \/ \E th \in Lockers : LockNewViewLock(th)
  \/ \E th \in Lockers : LockNewViewRegister(th)
  \/ \E th \in Lockers, t \in Views : \E order \in CalcOrders(t) :
       LockCommit(th, t, order)
  \/ \E th \in Lockers : LockCommitStep(th)
  \/ \E th \in Lockers : LockUpdateParent(th)
  \/ \E th \in Lockers : LockInvalidate(th)
  \/ \E th \in Lockers : LockInvalidateStep(th)

SpecLock == Init /\ [][NextLock]_vars

\* ------------------------------------------------------ package pebble
\* pebble.Database (pc.pebble): the closed flag and the engine, pebble.DB.
\* The engine is its data (key -> value), its own closed flag and calls, the
\* number of calls it has received; last is its last call.  ret is what the
\* last method of the Database returned.  Every method holds db.lock from
\* its first to its last statement and is one step.
PebbleKeys ==
  UNION {[1 .. n -> PebbleBytes] : n \in 0 .. MaxPebbleKeyLen}

\* []byte arguments that may be nil
MaybeBytes == {Nothing} \cup {Some(k) : k \in PebbleKeys}

\* the bytes of a slice that may be nil
bytesOf(m) == IF m = Nothing THEN <<>> ELSE m[1]

ErrClosed == "closed"
PebbleErrClosed == "pebble: closed"
PebbleErrNotFound == "pebble: not found"
ErrLeakedIterators == "leaked iterators"
ErrEngine == "pebble: engine error"

\* what pebble.DB.Close can return
EngineCloseErrors == {NoErr, ErrLeakedIterators, ErrEngine, PebbleErrClosed}

\* strings.Contains that finds nothing
leakedIteratorNever(err) == FALSE

\* strings.Contains(err.Error(), "leaked iterator")
leakedIterator(err) == err = ErrLeakedIterators

updateError(err) ==
  CASE err = PebbleErrClosed -> ErrClosed
    [] err = PebbleErrNotFound -> ErrNotFound
    [] OTHER -> err

\* bytes.Compare, the engine's comparer: -1, 0 or 1
RECURSIVE Compare(_, _)
Compare(a, b) ==
  IF a = <<>> THEN (IF b = <<>> THEN 0 ELSE -1)
  ELSE IF b = <<>> THEN 1
  ELSE IF Head(a) < Head(b) THEN -1
  ELSE IF Head(a) > Head(b) THEN 1
  ELSE Compare(Tail(a), Tail(b))

\* the engine after a call
engineCalled(e, call) == [e EXCEPT !.calls = @ + 1, !.last = call]

\* pebble.DB.Get
engineGet(e, key) ==
  IF e.closed THEN [data |-> Nothing, err |-> PebbleErrClosed]
  ELSE IF key \in DOMAIN e.data THEN [data |-> Some(e.data[key]), err |-> NoErr]
  ELSE [data |-> Nothing, err |-> PebbleErrNotFound]

\* the keys a pebble iterator with these bounds yields, ascending: the keys
\* k of the engine with LowerBound <= k < UpperBound (nil: no bound)
RECURSIVE ascending(_)
ascending(S) ==
  IF S = {} THEN <<>>
  ELSE LET k == CHOOSE x \in S : \A y \in S : Compare(x, y) <= 0
       IN <<k>> \o ascending(S \ {k})

engineNewIter(e, opts) ==
  ascending({k \in DOMAIN e.data :
               /\ Compare(bytesOf(opts.LowerBound), k) <= 0
               /\ opts.UpperBound = Nothing \/ Compare(k, opts.UpperBound[1]) < 0})

IterOptions(lower, upper) == [LowerBound |-> lower, UpperBound |-> upper]

\* the result of a method and the database it leaves
Did(db, op, ret) == [db |-> [db EXCEPT !.ret = [op |-> op] @@ ret], ret |-> ret]

\* Database.Close: the engine's Close returns engineErr
Close(db, engineErr) ==
  IF db.closed THEN Did(db, "Close", [err |-> ErrClosed])
  ELSE Did([db EXCEPT !.closed = TRUE,
                      !.pebbleDB = [engineCalled(@, [op |-> "Close"])
                                      EXCEPT !.closed = TRUE]],
           "Close",
           [err |-> IF updateError(engineErr) # NoErr
                       /\ leakedIterator(updateError(engineErr))
                    THEN NoErr ELSE updateError(engineErr)])

HealthCheck(db) ==
  IF db.closed THEN Did(db, "HealthCheck", [err |-> ErrClosed])
  ELSE Did(db, "HealthCheck", [err |-> NoErr])

Has(db, key) ==
  IF db.closed THEN Did(db, "Has", [has |-> FALSE, err |-> ErrClosed])
  ELSE LET got == engineGet(db.pebbleDB, key)
           d == [db EXCEPT !.pebbleDB = engineCalled(@, [op |-> "Get", key |-> key])]
       IN IF got.err = PebbleErrNotFound
          THEN Did(d, "Has", [has |-> FALSE, err |-> NoErr])
          ELSE IF got.err # NoErr
          THEN Did(d, "Has", [has |-> FALSE, err |-> updateError(got.err)])
          ELSE Did(d, "Has", [has |-> TRUE, err |-> NoErr])

Get(db, key) ==
  IF db.closed THEN Did(db, "Get", [data |-> Nothing, err |-> ErrClosed])
  ELSE LET got == engineGet(db.pebbleDB, key)
           d == [db EXCEPT !.pebbleDB = engineCalled(@, [op |-> "Get", key |-> key])]
       IN IF got.err # NoErr
          THEN Did(d, "Get", [data |-> Nothing, err |-> updateError(got.err)])
          ELSE Did(d, "Get", [data |-> got.data, err |-> NoErr])

Put(db, key, value) ==
  IF db.closed THEN Did(db, "Put", [err |-> ErrClosed])
  ELSE Did([db EXCEPT !.pebbleDB =
                 [engineCalled(@, [op |-> "Set", key |-> key])
                    EXCEPT !.data = MapPut(@, key, value)]],
           "Put", [err |-> updateError(NoErr)])

Delete(db, key) ==
  IF db.closed THEN Did(db, "Delete", [err |-> ErrClosed])
  ELSE Did([db EXCEPT !.pebbleDB =
                 [engineCalled(@, [op |-> "Delete", key |-> key])
                    EXCEPT !.data = MapDel(@, key)]],
           "Delete", [err |-> updateError(NoErr)])

\* the engine compacts [start, limit]
engineCompact(db, start, limit) ==
  [db EXCEPT !.pebbleDB =
     engineCalled(@, [op |-> "Compact", start |-> start, limit |-> limit])]

\* the greatest key, as it.Last() and it.Key() give it: nil without a key
\* and for the empty key
lastKey(e) ==
  LET keys == engineNewIter(e, IterOptions(Nothing, Nothing))
  IN IF keys = <<>> \/ keys[Len(keys)] = <<>> THEN Nothing
     ELSE Some(keys[Len(keys)])

\* Database.Compact; start and limit may be nil
Compact(db, start, limit) ==
  IF db.closed THEN Did(db, "Compact", [err |-> ErrClosed])
  ELSE IF Compare(bytesOf(start), bytesOf(limit)) >= 0
  THEN Did(db, "Compact", [err |-> NoErr])
  ELSE IF limit # Nothing
  THEN Did(engineCompact(db, bytesOf(start), limit[1]), "Compact",
           [err |-> updateError(NoErr)])
  ELSE IF lastKey(db.pebbleDB) # Nothing
  THEN Did(engineCompact([db EXCEPT !.pebbleDB =
                            engineCalled(@, [op |-> "NewIter"])],
                         bytesOf(start), lastKey(db.pebbleDB)[1]),
           "Compact", [err |-> updateError(NoErr)])
  ELSE Did([db EXCEPT !.pebbleDB = engineCalled(@, [op |-> "NewIter"])],
           "Compact", [err |-> NoErr])

\* the last index of prefix with a byte below 0xff, 0 without one
RECURSIVE lastBelowFF(_, _)
lastBelowFF(prefix, i) ==
  IF i = 0 THEN 0
  ELSE IF prefix[i] < 255 THEN i
  ELSE lastBelowFF(prefix, i - 1)

\* bytesPrefix with the prefix itself as the upper bound
bytesPrefixClosed(prefix) == IterOptions(Some(prefix), Some(prefix))

\* bytesPrefix: the key range of the keys with the prefix
bytesPrefix(prefix) ==
  LET i == lastBelowFF(prefix, Len(prefix))
  IN IterOptions(Some(prefix),
                 IF i = 0 THEN Nothing
                 ELSE Some([j \in 1 .. i |->
                              IF j = i THEN prefix[j] + 1 ELSE prefix[j]]))

\* the iterator a NewIterator... returns: closed with an error, or over the
\* keys of the engine's iterator
closedIter == [closed |-> TRUE, err |-> ErrClosed, keys |-> <<>>]

openIter(db, opts) ==
  [closed |-> FALSE, err |-> NoErr, keys |-> engineNewIter(db.pebbleDB, opts)]

iterOver(db, op, opts) ==
  IF db.closed THEN Did(db, op, closedIter)
  ELSE Did([db EXCEPT !.pebbleDB = engineCalled(@, [op |-> "NewIter"])],
           op, openIter(db, opts))

NewIterator(db) == iterOver(db, "NewIterator", IterOptions(Nothing, Nothing))

NewIteratorWithStart(db, start) ==
  iterOver(db, "NewIteratorWithStart", IterOptions(Some(start), Nothing))

NewIteratorWithPrefix(db, prefix) ==
  iterOver(db, "NewIteratorWithPrefix", bytesPrefix(prefix))

\* the range of NewIteratorWithStartAndPrefix
startAndPrefixRange(start, prefix) ==
  IF Compare(start, prefix) = 1
  THEN [bytesPrefix(prefix) EXCEPT !.LowerBound = Some(start)]
  ELSE bytesPrefix(prefix)

NewIteratorWithStartAndPrefix(db, start, prefix) ==
  iterOver(db, "NewIteratorWithStartAndPrefix",
           startAndPrefixRange(start, prefix))

\* the arguments the methods that read are called with
PebbleArgs == {k \in PebbleKeys : Len(k) <= 1}

MaybeArgs == {Nothing} \cup {Some(k) : k \in PebbleArgs}

\* the methods, as calls with their arguments
PebbleReads ==
  {[op |-> "HealthCheck"], [op |-> "NewIterator"]}
  \cup {[op |-> o, key |-> k] :
          o \in {"Has", "Get", "NewIteratorWithStart", "NewIteratorWithPrefix"},
          k \in PebbleArgs}
  \cup {[op |-> "Compact", start |-> s, limit |-> l] :
          s \in MaybeArgs, l \in MaybeArgs}
  \cup {[op |-> "NewIteratorWithStartAndPrefix", start |-> s, prefix |-> p] :
          s \in PebbleKeys, p \in PebbleArgs}

PebbleWrites ==
  {[op |-> o, key |-> k] : o \in {"Put", "Delete"}, k \in PebbleKeys}
  \cup {[op |-> "Close", engineErr |-> e] : e \in EngineCloseErrors}

\* the method call c on the database
pebbleCall(db, c) ==
  CASE c.op = "HealthCheck" -> HealthCheck(db)
    [] c.op = "NewIterator" -> NewIterator(db)
    [] c.op = "Has" -> Has(db, c.key)
    [] c.op = "Get" -> Get(db, c.key)
    [] c.op = "NewIteratorWithStart" -> NewIteratorWithStart(db, c.key)
    [] c.op = "NewIteratorWithPrefix" -> NewIteratorWithPrefix(db, c.key)
    [] c.op = "Compact" -> Compact(db, c.start, c.limit)
    [] c.op = "NewIteratorWithStartAndPrefix" ->
         NewIteratorWithStartAndPrefix(db, c.start, c.prefix)
    [] c.op = "Put" -> Put(db, c.key, 1)
    [] c.op = "Delete" -> Delete(db, c.key)
    [] c.op = "Close" -> Close(db, c.engineErr)

\* the database after the call c returned
pebbleCalled(db, c) == [db EXCEPT !.ops = @ + 1, !.ret = [call |-> c] @@ @]

PebbleUnchanged ==
  UNCHANGED <<created, parentTrie, invalidated, committed,
              nodesAlreadyCalculated, calculateNodesOnce, childViews, values,
              rootID, childrenChanges, dbNodes, dbValues, dbRootID, sema,
              issued>>

\* a method that writes (Put, Delete, Close)
PebbleWrite(c) ==
  /\ pc.pebble.ops < MaxPebbleOps
  /\ pc' = [pc EXCEPT !.pebble = pebbleCalled(pebbleCall(@, c).db, c)]
  /\ PebbleUnchanged

\* a method that reads, compacts or makes an iterator
PebbleRead(c) ==
  /\ pc.pebble.ops < MaxPebbleOps
  /\ pc' = [pc EXCEPT !.pebble = pebbleCalled(pebbleCall(@, c).db, c)]
  /\ PebbleUnchanged

NextPebble ==
  \/ \E c \in PebbleWrites : PebbleWrite(c)
  \/ \E c \in PebbleReads : PebbleRead(c)

SpecPebble == Init /\ [][NextPebble]_vars

\* ------------------------------------------------- paths.SerializedPath
\* A SerializedPath is [NibbleLength, Value]: Value holds two nibbles a byte,
\* the first in the high 4 bits; with an odd NibbleLength the low 4 bits of
\* the last byte are not part of the path.  pc.paths holds two paths and
\* what the last Equal of them returned (ret) or the last HasPrefix or
\* HasStrictPrefix (has); pc.paths.appended holds, for a path that was built
\* from the empty path by AppendNibble alone, the nibbles appended.
SerializedPaths ==
  UNION {{[NibbleLength |-> n, Value |-> v] :
            v \in [1 .. ((n + 1) \div 2) -> PathBytes]} : n \in 0 .. MaxNibbles}

\* SerializedPath.NibbleVal: the nibble at nibbleIndex (from 0)
NibbleVal(s, nibbleIndex) ==
  LET value == s.Value[(nibbleIndex \div 2) + 1]
  IN IF nibbleIndex % 2 = 0 THEN value \div 16 ELSE value % 16

\* SerializedPath.Equal: the lengths and the bytes (bytes.Equal)
Equal(s, other) ==
  /\ s.NibbleLength = other.NibbleLength
  /\ s.Value = other.Value

\* SerializedPath.Deserialize: the nibbles of Value, less the last one when
\* NibbleLength is odd
Deserialize(s) ==
  [i \in 1 .. (2 * Len(s.Value) - (s.NibbleLength % 2)) |-> NibbleVal(s, i - 1)]

\* AppendNibble that puts every nibble into the low 4 bits
AppendNibbleLow(s, nibble) ==
  LET even == 1 - (s.NibbleLength % 2)
      value == IF even = 1 THEN Append(s.Value, 0) ELSE s.Value
  IN [NibbleLength |-> s.NibbleLength + 1,
      Value |-> [value EXCEPT ![Len(value)] = (@ + nibble) % 256]]

\* SerializedPath.AppendNibble
AppendNibble(s, nibble) ==
  LET even == 1 - (s.NibbleLength % 2)
      value == IF even = 1 THEN Append(s.Value, 0) ELSE s.Value
  IN [NibbleLength |-> s.NibbleLength + 1,
      Value |-> [value EXCEPT ![Len(value)] =
                   (@ + nibble * (IF even = 1 THEN 16 ELSE 1)) % 256]]

\* bytes.HasPrefix
bytesHasPrefix(b, prefix) ==
  /\ Len(b) >= Len(prefix)
  /\ SubSeq(b, 1, Len(prefix)) = prefix

\* HasPrefix from the odd prefix length on: reducedSize = len(prefix.Value) - 1
hasOddPrefix(s, prefix, reducedSize) ==
  IF reducedSize < 0 THEN FALSE
  ELSE /\ s.Value[reducedSize + 1] \div 16 = prefix.Value[reducedSize + 1] \div 16
       /\ bytesHasPrefix(s.Value, SubSeq(prefix.Value, 1, reducedSize))

\* SerializedPath.HasPrefix
HasPrefix(s, prefix) ==
  IF s.NibbleLength < prefix.NibbleLength \/ Len(s.Value) < Len(prefix.Value)
  THEN FALSE
  ELSE IF prefix.NibbleLength % 2 = 0
  THEN bytesHasPrefix(s.Value, prefix.Value)
  ELSE hasOddPrefix(s, prefix, Len(prefix.Value) - 1)

\* SerializedPath.HasStrictPrefix
HasStrictPrefix(s, prefix) == HasPrefix(s, prefix) /\ ~Equal(s, prefix)

\* the receiver of AppendNibble after the call: the method has a value
\* receiver and reads s.Value by copy into a new slice only
AppendNibbleReceiver(s, nibble) == s

\* the nibbles handed to AppendNibble
AppendNibbles == {0, 1, 15}

PathsUnchanged ==
  UNCHANGED <<created, parentTrie, invalidated, committed,
              nodesAlreadyCalculated, calculateNodesOnce, childViews, values,
              rootID, childrenChanges, dbNodes, dbValues, dbRootID, sema,
              issued>>

\* a path is made as a literal (its fields are exported) ...
PathLiteral(which, p) ==
  /\ pc' = [pc EXCEPT !.paths[which] = p, !.paths.ret = Nothing,
                      !.paths.has = Nothing,
                      !.paths.appended[which] =
                        IF p = EmptyPath THEN Some(<<>>) ELSE Nothing]
  /\ PathsUnchanged

\* ... or grows by a nibble
PathAppend(which, nibble) ==
  /\ pc.paths[which].NibbleLength < MaxNibbles
  /\ pc' = [pc EXCEPT !.paths[which] = AppendNibble(@, nibble),
                      !.paths.ret = Nothing,
                      !.paths.has = Nothing,
                      !.paths.appended[which] =
                        IF @ = Nothing THEN Nothing
                        ELSE Some(Append(@[1], nibble))]
  /\ PathsUnchanged

PathEqual ==
  /\ pc' = [pc EXCEPT !.paths.ret = Some(Equal(pc.paths.s, pc.paths.other)),
                      !.paths.has = Nothing]
  /\ PathsUnchanged

\* s.HasPrefix(other)
PathHasPrefix ==
  /\ pc' = [pc EXCEPT !.paths.ret = Nothing,
                      !.paths.has = [op |-> "HasPrefix",
                                     val |-> HasPrefix(pc.paths.s, pc.paths.other)]]
  /\ PathsUnchanged

\* s.HasStrictPrefix(other)
PathHasStrictPrefix ==
  /\ pc' = [pc EXCEPT !.paths.ret = Nothing,
                      !.paths.has = [op |-> "HasStrictPrefix",
                                     val |-> HasStrictPrefix(pc.paths.s,
                                                             pc.paths.other)]]
  /\ PathsUnchanged

NextPaths ==
  \/ \E which \in {"s", "other"}, p \in SerializedPaths : PathLiteral(which, p)
  \/ \E which \in {"s", "other"}, nibble \in AppendNibbles :
       PathAppend(which, nibble)
  \/ PathEqual
  \/ PathHasPrefix
  \/ PathHasStrictPrefix

SpecPaths == Init /\ [][NextPaths]_vars

\* ================================================================= claims
\* the arguments of a range proof that pass its argument checks
RangeArgs ==
  {a \in [start : {Nothing} \cup {Some(k) : k \in Keys},
           end : {Nothing} \cup {Some(k) : k \in Keys}, maxLength : 1 .. 2] :
     a.start = Nothing \/ a.end = Nothing \/ KeyLeq(a.start[1], a.end[1])}

\* C1: invalid is sticky.  Every public operation on an invalidated view
\* returns ErrInvalid: GetValue and GetValues for every key, GetMerkleRoot,
\* GetProof for every key, GetRangeProof for every well-formed range, NewView
\* for every batch and CommitToDB, on a first call and on a repeated one.
C1_InvalidIsSticky ==
  \A t \in created : invalidated[t] =>
    \A order \in CalcOrders(t) :
      /\ \A key \in Keys : getValueCopy(t, key).err = ErrInvalid
      /\ \A keys \in KeyLists, i \in 1 .. 2 :
           i <= Len(keys) => getValues(t, keys)[i].err = ErrInvalid
      /\ getMerkleRoot(t, order).err = ErrInvalid
      /\ \A key \in Keys : GetProofResult(t, key, order).err = ErrInvalid
      /\ \A a \in RangeArgs :
           GetRangeProofResult(t, a.start, a.end, a.maxLength, order).err = ErrInvalid
      /\ \A ops \in Batches(SpecKeys, 1) : newView(t, ops, order).err = ErrInvalid
      /\ \A writeOK \in BOOLEAN : commitToDB(t, order, writeOK).err = ErrInvalid

\* the views registered as children of v
Registered(cv, v) == {cv[v][i] : i \in DOMAIN cv[v]}

\* the views reachable from v through the child registry cv
RECURSIVE Descendants(_, _)
Descendants(cv, v) ==
  Registered(cv, v) \cup UNION {Descendants(cv, k) : k \in Registered(cv, v)}

\* C2: when invalidate has returned on a view, the view and every view
\* reachable from it through the child registry is invalidated, and the
\* child list of each of them is empty.
C2_InvalidateCascades ==
  \A v \in created :
    LET st == invalidate([invalidated |-> invalidated, childViews |-> childViews], v)
    IN \A d \in {v} \cup Descendants(childViews, v) :
         st.invalidated[d] /\ st.childViews[d] = <<>>

\* a view, its child and its grandchild have been invalidated by one commit
C2_Witness ==
  \E a, b, c \in created :
    /\ parentTrie[a] = DB /\ parentTrie[b] = a /\ parentTrie[c] = b
    /\ invalidated[a] /\ invalidated[b] /\ invalidated[c]
    /\ childViews[a] = <<>> /\ childViews[b] = <<>>

RECURSIVE ExpectedValue(_, _)
ExpectedValue(v, key) ==
  IF v = DB THEN IF key \in DOMAIN dbValues THEN Some(dbValues[key]) ELSE Nothing
  ELSE IF key \in DOMAIN values[v] THEN values[v][key].after
  ELSE ExpectedValue(parentTrie[v], key)

\* C4: a read on a valid view returns the view's own pending value for the
\* key when it has a pending change for it (NotFound when the change is a
\* delete), and otherwise what its parent trie holds, through every depth.
C4_ReadOverlay ==
  \A t \in created : ~invalidated[t] =>
    \A key \in Keys :
      getValueCopy(t, key) =
        IF ExpectedValue(t, key) = Nothing
        THEN [val |-> Nothing, err |-> ErrNotFound]
        ELSE [val |-> ExpectedValue(t, key), err |-> NoErr]

\* a valid view deletes a key its parent view puts, and reads NotFound, and
\* reads another key through to the parent
C4_Witness ==
  \E t \in created, j, k \in Keys :
    /\ ~invalidated[t] /\ parentTrie[t] # DB
    /\ k \in DOMAIN values[t] /\ values[t][k].after = Nothing
    /\ k \in DOMAIN values[parentTrie[t]]
    /\ values[parentTrie[t]][k].after # Nothing
    /\ getValueCopy(t, k).err = ErrNotFound
    /\ j \notin DOMAIN values[t] /\ getValueCopy(t, j).err = NoErr

\* C5 as claimed: a getValue / getChildren call during which the view is
\* invalidated returns ErrInvalid.  (overlap: the view was invalidated when
\* the call took its last step.)
C5_OverlapReturnsInvalid ==
  (pc.reader.phase = "done" /\ pc.reader.overlap) =>
    pc.reader.ret.err = ErrInvalid

\* C5 as amended: such a call returns no data, unless it is a getValue that
\* found the key among the view's own pending values: that call checks the
\* flag only at entry and returns the pending value.  A call that returns
\* data of the parent trie saw the view valid before and after it read.
C5_OverlapReturnsNoParentData ==
  (pc.reader.phase = "done" /\ pc.reader.overlap) =>
    IF pc.reader.op = "getValue" /\ pc.reader.passed
       /\ pc.reader.key \in DOMAIN values[pc.reader.view]
    THEN pc.reader.ret = [val |-> values[pc.reader.view][pc.reader.key].after,
                          err |-> NoErr]
    ELSE pc.reader.ret.err \in {ErrInvalid, ErrNotFound}

\* a getValue that went to its parent returns ErrInvalid: its view was valid
\* at entry and invalidated before the check after the parent call
C5_Witness ==
  /\ pc.reader.phase = "done" /\ pc.reader.op = "getValue"
  /\ pc.reader.passed /\ pc.reader.overlap
  /\ pc.reader.key \notin DOMAIN values[pc.reader.view]
  /\ pc.reader.ret.err = ErrInvalid

\* C6: a view does not change its parent until committed.  A step that
\* commits nothing leaves every view's pending values as they are, leaves the
\* pending node edits and the root ID of every view but the one whose node
\* IDs it calculates as they are, and leaves what every view reads as it is.
C6_ParentUnchanged ==
  [][committed' = committed =>
       \A v \in created :
         /\ values'[v] = values[v]
         /\ calculateNodesOnce'[v] = calculateNodesOnce[v] =>
              /\ childrenChanges'[v] = childrenChanges[v]
              /\ rootID'[v] = rootID[v]
         /\ \A key \in Keys : getValueCopy(v, key)' = getValueCopy(v, key)]_vars

\* C6 as stated: creating a child view leaves the pending values, the pending
\* node edits and the root ID of the view it is created from unchanged, a
\* calculation on a view leaves those of its parent unchanged, and neither
\* changes what any view reads.
C6_ParentUntouchedByNewView ==
  [][committed' = committed =>
       /\ \A c \in created' \ created :
            parentTrie'[c] # DB =>
              /\ values'[parentTrie'[c]] = values[parentTrie'[c]]
              /\ childrenChanges'[parentTrie'[c]] = childrenChanges[parentTrie'[c]]
              /\ rootID'[parentTrie'[c]] = rootID[parentTrie'[c]]
       /\ \A c \in created :
            (calculateNodesOnce'[c] # calculateNodesOnce[c] /\ parentTrie[c] # DB) =>
              /\ values'[parentTrie[c]] = values[parentTrie[c]]
              /\ childrenChanges'[parentTrie[c]] = childrenChanges[parentTrie[c]]
              /\ rootID'[parentTrie[c]] = rootID[parentTrie[c]]
       /\ \A v \in created : \A key \in Keys :
            getValueCopy(v, key)' = getValueCopy(v, key)]_vars

C6_Witness ==
  \E c \in created :
    /\ parentTrie[c] # DB
    /\ ~committed[parentTrie[c]]
    /\ calculateNodesOnce[c] = "done"
    /\ calculateNodesOnce[parentTrie[c]] = "done"
    /\ values[c] # <<>>
    /\ values[parentTrie[c]] # <<>>
    /\ rootID[c] # Empty
    /\ rootID[c] # rootID[parentTrie[c]]
    /\ \E key \in Keys : getValueCopy(c, key) # getValueCopy(parentTrie[c], key)

\* every write on view t is refused and changes nothing
WritesRejected(t) ==
  /\ \A key \in Keys : \A value \in {Nothing} \cup {Some(v) : v \in Values} :
       recordValueChange(values[t], nodesAlreadyCalculated[t], parentTrie[t],
                         key, value)
         = [vals |-> values[t], err |-> ErrNodesAlreadyCalculated]
  /\ \A key \in Keys :
       /\ insert(childrenChanges[t], t, key)
            = Edit(childrenChanges[t], ErrNodesAlreadyCalculated)
       /\ remove(childrenChanges[t], t, key)
            = Edit(childrenChanges[t], ErrNodesAlreadyCalculated)
  /\ \A parentKey, nodeKey \in DOMAIN childrenChanges[t] :
       compressNodePath(childrenChanges[t], t,
                        childrenChanges[t][parentKey], parentKey,
                        childrenChanges[t][nodeKey], nodeKey)
         = Edit(childrenChanges[t], ErrNodesAlreadyCalculated)

\* C7 as stated: once calculateNodeIDs has returned on a view, every
\* recordValueChange, insert, remove and compressNodePath on it returns
\* ErrNodesAlreadyCalculated and changes nothing.
C7_WritesRejectedAfterCalc ==
  \A t \in created : calculateNodesOnce[t] = "done" => WritesRejected(t)

\* C7: once calculateNodeIDs has returned on a view that was not invalidated
\* when the calculation started, every write on the view returns
\* ErrNodesAlreadyCalculated and changes nothing, from then on.
C7_WritesRejectedAfterValidCalc ==
  [][\A t \in created :
       (\/ nodesAlreadyCalculated[t]
        \/ /\ calculateNodesOnce[t] = "new"
           /\ calculateNodesOnce'[t] = "done"
           /\ ~invalidated[t])
         => WritesRejected(t)']_vars

C7_Witness ==
  \E t \in created :
    /\ calculateNodesOnce[t] = "done"
    /\ nodesAlreadyCalculated[t]
    /\ values[t] # <<>>
    /\ DOMAIN childrenChanges[t] # {emptyKey}
    /\ WritesRejected(t)

\* the final (key, value) changes of a view
FinalValues(t) == [key \in DOMAIN values[t] |-> values[t][key].after]

\* C9: determinism.  The node-ID calculation of a view gives the same outcome
\* and the same root ID (an ID fixes the whole trie below it) in whatever
\* order it applies the pending values, and two calculated views over the
\* same base with the same final changes have the same root ID.
C9_Deterministic ==
  /\ \A t \in created : \A o1, o2 \in CalcOrders(t) :
       /\ calculateNodeIDs(t, o1).err = calculateNodeIDs(t, o2).err
       /\ calculateNodeIDs(t, o1).rootID = calculateNodeIDs(t, o2).rootID
  /\ \A t1, t2 \in created :
       (/\ parentTrie[t1] = parentTrie[t2]
        /\ FinalValues(t1) = FinalValues(t2)
        /\ nodesAlreadyCalculated[t1] /\ nodesAlreadyCalculated[t2]
        /\ ~invalidated[t1] /\ ~invalidated[t2]
        /\ ~committed[t1] /\ ~committed[t2])
         => rootID[t1] = rootID[t2]

\* C8: of the threads that call calculateNodeIDs on one view at most one
\* runs the function, no caller has returned while the Once is not done, and
\* the callers that returned on the same view hold the same error and the
\* same root ID.
C8_OnceSameOutcome ==
  \A th1, th2 \in Callers :
    LET c1 == pc.callers[th1]
        c2 == pc.callers[th2]
        runs(c) == c.phase = "body" \/ (c.phase = "done" /\ c.ran)
    IN /\ c1.phase = "done" => calculateNodesOnce[c1.view] = "done"
       /\ (th1 # th2 /\ runs(c1) /\ runs(c2)) => c1.view # c2.view
       /\ (c1.phase = "done" /\ c2.phase = "done" /\ c1.view = c2.view) =>
            (c1.err = c2.err /\ c1.id = c2.id)

\* C10: the root ID and the child ids that a successful calculateNodeIDs
\* leaves are those of the sequential computation, whichever children were
\* computed in goroutines or inline and however their steps interleaved
C10_ScheduleIndependent ==
  (pc.hash # Idle /\ pc.hash.phase = "done" /\ pc.hash.err = NoErr)
    => /\ rootID[pc.hash.view] = pc.hash.sequential.id
       /\ childrenChanges[pc.hash.view] = pc.hash.sequential.cc

\* a calculation that succeeded with one child computed in a goroutine and
\* another inline
C10_Witness ==
  /\ pc.hash # Idle
  /\ pc.hash.phase = "done"
  /\ pc.hash.err = NoErr
  /\ pc.hash.ways = {"goroutine", "inline"}
  /\ rootID[pc.hash.view] = pc.hash.sequential.id

\* the keys of the nodes of the trie of view t at and below key, as the
\* view reads them
RECURSIVE NodesBelow(_, _)
NodesBelow(t, key) ==
  {key} \cup
  UNION {NodesBelow(t, Extend(key, tok,
                              Kids(getChildren(childrenChanges, t, key).children)[tok]
                                .compressedKey)) :
           tok \in DOMAIN Kids(getChildren(childrenChanges, t, key).children)}

\* a view whose node IDs have been calculated and that can be read
Calculated(t) ==
  /\ t \in created
  /\ nodesAlreadyCalculated[t]
  /\ ~invalidated[t]
  /\ ~committed[t]

\* C11: path compression.  In a view whose node IDs have been calculated no
\* non-root node has no value and at most one child.
C11_PathCompressed ==
  \A t \in Views : Calculated(t) =>
    \A key \in NodesBelow(t, emptyKey) \ {emptyKey} :
      \/ getValue(t, key).val # Nothing
      \/ NumKids(getChildren(childrenChanges, t, key).children) >= 2

\* C12: atomic commit.  A CommitToDB whose batch write fails leaves the
\* database's nodes, values and root ID as they were, leaves the view
\* uncommitted and valid, and a CommitToDB of the view whose write works
\* then succeeds.
C12_FailedCommitChangesNothing ==
  [][\A t \in created : \A order \in CalcOrders(t) :
       (/\ commitToDB(t, order, FALSE).err = ErrWrite
        /\ CommitToDB(t, order, FALSE))
         => /\ dbNodes' = dbNodes
            /\ dbValues' = dbValues
            /\ dbRootID' = dbRootID
            /\ ~committed'[t]
            /\ ~invalidated'[t]
            /\ childViews' = childViews
            /\ parentTrie' = parentTrie
            /\ commitToDB(t, <<>>, TRUE)'.err = NoErr]_vars

\* a view with pending changes whose commit has failed at the write: its
\* node IDs are calculated, nothing of it is in the database
C12_Witness ==
  \E t \in created :
    /\ commitToDB(t, <<>>, FALSE).err = ErrWrite
    /\ calculateNodesOnce[t] = "done"
    /\ values[t] # <<>>
    /\ dbValues = <<>>
    /\ commitToDB(t, <<>>, TRUE).err = NoErr

\* the views on the parent chain of t, t included, that are not committed
RECURSIVE UncommittedChain(_)
UncommittedChain(t) ==
  IF t = DB \/ committed[t] THEN {}
  ELSE {t} \cup UncommittedChain(parentTrie[t])

\* C13: CommitToDB on a valid view whose parent is an uncommitted view
\* commits the parent chain first: it returns without error and the view
\* and all its uncommitted ancestors are committed, their final values in
\* the database.
C13_CommitsParentChain ==
  [][\A t \in created : \A order \in CalcOrders(t) :
       (/\ parentTrie[t] # DB
        /\ \A a \in UncommittedChain(t) : ~invalidated[a]
        /\ ~committed[t]
        /\ CommitToDB(t, order, TRUE))
         => /\ commitToDB(t, order, TRUE).err = NoErr
            /\ \A a \in UncommittedChain(t) :
                 /\ committed'[a]
                 /\ \A key \in DOMAIN values[a] :
                      values[a][key].after # Nothing => key \in DOMAIN dbValues']_vars

\* the committers between db.commitLock.Lock() and its Unlock()
InCommit == {th \in Committers : pc.committers[th] # Idle}

\* C14: commits are serialized.  At most one thread is between acquiring
\* and releasing db.commitLock, and it is the holder of the lock: the
\* calculation, the write and the committed flag of one CommitToDB are not
\* interleaved with those of another.
C14_CommitsSerialized ==
  /\ Cardinality(InCommit) <= 1
  /\ \A th \in InCommit : pc.dbCommitLock = th

\* one thread has written its view and not yet set the flag, while another
\* thread waits for db.commitLock
C14_Witness ==
  \E th \in Committers :
    /\ pc.committers[th] # Idle
    /\ pc.committers[th].phase = "written"
    /\ \E t \in created :
         /\ t # pc.committers[th].view
         /\ ~committed[t]
         /\ ~invalidated[t]

BadRangeArgs ==
  {a \in [start : MaybeKeys, end : MaybeKeys, maxLength : -1 .. 1] :
     \/ a.start # Nothing /\ a.end # Nothing /\ KeyLess(a.end[1], a.start[1])
     \/ a.maxLength <= 0}

\* C16: GetRangeProof rejects bad arguments.  With start and end present
\* and start > end it returns ErrStartAfterEnd, otherwise with
\* maxLength <= 0 it returns ErrInvalidMaxLength; it returns no proof and
\* leaves the view as it is, its node IDs not calculated if they were not.
C16_RangeArgsRejected ==
  \A t \in created : \A order \in CalcOrders(t) : \A a \in BadRangeArgs :
    /\ GetRangeProofResult(t, a.start, a.end, a.maxLength, order).err =
         IF a.start # Nothing /\ a.end # Nothing /\ KeyLess(a.end[1], a.start[1])
         THEN ErrStartAfterEnd ELSE ErrInvalidMaxLength
    /\ GetRangeProofResult(t, a.start, a.end, a.maxLength, order).proof =
         NilRangeProof
    /\ GetRangeProofResult(t, a.start, a.end, a.maxLength, order).calc = NoCalc(t)

\* a view with pending values, its node IDs not yet calculated, on which a
\* range proof with start > end is refused
C16_Witness ==
  \E t \in created :
    /\ calculateNodesOnce[t] = "new"
    /\ ~invalidated[t]
    /\ values[t] # <<>>
    /\ calculateNodeIDs(t, <<rootKey>>).cc # childrenChanges
    /\ GetRangeProofResult(t, Some(<<1>>), Some(<<0>>), 1, <<>>).err = ErrStartAfterEnd

\* the keys with a value in view t that lie in [start, end]
KeysInRange(t, start, end) ==
  {k \in Keys : /\ getValue(t, k).val # Nothing
                /\ (start = Nothing \/ KeyLeq(start[1], k))
                /\ (end = Nothing \/ KeyLeq(k, end[1]))}

\* kvs holds, in ascending order, the first keys of K, at most maxLength
FirstKeysOf(kvs, K, maxLength) ==
  /\ Len(kvs) = IF Cardinality(K) < maxLength THEN Cardinality(K) ELSE maxLength
  /\ \A i \in 1 .. Len(kvs) : kvs[i].Key \in K
  /\ \A i \in 1 .. (Len(kvs) - 1) : KeyLess(kvs[i].Key, kvs[i + 1].Key)
  /\ \A k \in K : \A i \in 1 .. Len(kvs) :
       KeyLess(k, kvs[i].Key) => \E j \in 1 .. (i - 1) : kvs[j].Key = k

FirstKeysReturned(res, K, maxLength) ==
  res.err = NoErr => FirstKeysOf(res.proof.KeyValues, K, maxLength)

\* C17: the KeyValues of every range proof GetRangeProof returns are in
\* strictly ascending key order, at most maxLength, within [start, end],
\* and are exactly the first keys of the view in that range (a range proof
\* is built when the node IDs of the view have been calculated).
C17_RangeKeyValues ==
  \A t \in created : \A order \in CalcOrders(t) : \A a \in RangeArgs :
    calculateNodesOnce[t] = "done" =>
      FirstKeysReturned(GetRangeProofResult(t, a.start, a.end, a.maxLength, order),
                        KeysInRange(t, a.start, a.end), a.maxLength)

\* a view with three keys of which a range proof of at most two is cut at
\* maxLength, and another is cut at end
C17_Witness ==
  \E t \in created :
    /\ calculateNodesOnce[t] = "done"
    /\ Cardinality(KeysInRange(t, Nothing, Nothing)) = 3
    /\ GetRangeProofResult(t, Nothing, Nothing, 2, <<>>).err = NoErr
    /\ Len(GetRangeProofResult(t, Nothing, Nothing, 2, <<>>).proof.KeyValues) = 2
    /\ Cardinality(KeysInRange(t, Nothing, Some(<<0>>))) = 1
    /\ Len(GetRangeProofResult(t, Nothing, Some(<<0>>), 2, <<>>).proof.KeyValues) = 1

\* sp is the path full without the leading nodes whose keys are those of
\* the nodes of ep at the same places
StrippedOf(sp, full, ep) ==
  \E n \in 0 .. Len(full) :
    /\ sp = SubSeq(full, n + 1, Len(full))
    /\ \A j \in 1 .. n : j <= Len(ep) /\ full[j].key = ep[j].key
    /\ (n < Len(full) /\ n < Len(ep)) => full[n + 1].key # ep[n + 1].key

\* the end proof and the start proof of the range proof rp returned for the
\* arguments a on view t
EndAndStartProofs(t, a, rp) ==
  /\ Len(rp.KeyValues) > 0 =>
       rp.EndProof =
         getProof(childrenChanges, t, rp.KeyValues[Len(rp.KeyValues)].Key).Path
  /\ (Len(rp.KeyValues) = 0 /\ a.end # Nothing) =>
       rp.EndProof = getProof(childrenChanges, t, a.end[1]).Path
  /\ a.start # Nothing =>
       StrippedOf(rp.StartProof, getProof(childrenChanges, t, a.start[1]).Path,
                  rp.EndProof)

EndAndStartProofsReturned(t, a, res) ==
  res.err = NoErr => EndAndStartProofs(t, a, res.proof)

\* C18: in a range proof, EndProof is the proof path of the greatest
\* returned key, or of end when no key is returned and end is present;
\* StartProof is the proof path of start without the leading nodes it shares
\* with EndProof.
C18_RangeEndAndStartProof ==
  \A t \in created : \A order \in CalcOrders(t) : \A a \in RangeArgs :
    calculateNodesOnce[t] = "done" =>
      EndAndStartProofsReturned(
        t, a, GetRangeProofResult(t, a.start, a.end, a.maxLength, order))

\* a range proof cut at maxLength before the requested end, whose end proof
\* is not the proof of end, and whose start proof lost its leading node
C18_Witness ==
  \E t \in created :
    /\ calculateNodesOnce[t] = "done"
    /\ GetRangeProofResult(t, Some(<<0>>), Some(<<1>>), 1, <<>>).err = NoErr
    /\ Len(GetRangeProofResult(t, Some(<<0>>), Some(<<1>>), 1, <<>>)
             .proof.KeyValues) = 1
    /\ GetRangeProofResult(t, Some(<<0>>), Some(<<1>>), 1, <<>>).proof.EndProof
         # getProof(childrenChanges, t, <<1>>).Path
    /\ Len(GetRangeProofResult(t, Some(<<0>>), Some(<<1>>), 1, <<>>)
             .proof.StartProof)
         < Len(getProof(childrenChanges, t, <<0>>).Path)

\* the range proof rp carries one node, the root
RootNodeOnly(rp) ==
  /\ rp.KeyValues = <<>>
  /\ Len(rp.StartProof \o rp.EndProof) = 1
  /\ (rp.StartProof \o rp.EndProof)[1].key = rootKey

RootNodeOnlyReturned(res) == res.err = NoErr => RootNodeOnly(res.proof)

\* C19: when the range holds no key of the view and end is unbounded, the
\* range proof carries the root node only, for a present start as for an
\* absent one.
C19_EmptyRangeRootOnly ==
  \A t \in created : \A order \in CalcOrders(t) : \A a \in RangeArgs :
    ( /\ calculateNodesOnce[t] = "done"
      /\ a.end = Nothing
      /\ KeysInRange(t, a.start, a.end) = {} ) =>
      RootNodeOnlyReturned(
        GetRangeProofResult(t, a.start, a.end, a.maxLength, order))

\* the range proof rp of an empty range from start on, without an end
EmptyRangeProof(t, start, rp) ==
  /\ rp.KeyValues = <<>>
  /\ start = Nothing =>
       /\ rp.StartProof = <<>>
       /\ rp.EndProof = getProof(childrenChanges, t, rootKey).Path
       /\ RootNodeOnly(rp)
  /\ start # Nothing =>
       /\ rp.StartProof = getProof(childrenChanges, t, start[1]).Path
       /\ rp.StartProof[1].key = rootKey
       /\ rp.EndProof = <<>>

EmptyRangeProofReturned(t, start, res) ==
  res.err = NoErr => EmptyRangeProof(t, start, res.proof)

\* C19 (as the code has it): when the range holds no key of the view and end
\* is unbounded, the proof has no key and carries the root node only for an
\* absent start; for a present start it carries the whole proof path of
\* start, from the root on, as its StartProof and no EndProof.
C19_EmptyRangeProof ==
  \A t \in created : \A order \in CalcOrders(t) : \A a \in RangeArgs :
    ( /\ calculateNodesOnce[t] = "done"
      /\ a.end = Nothing
      /\ KeysInRange(t, a.start, a.end) = {} ) =>
      EmptyRangeProofReturned(
        t, a.start, GetRangeProofResult(t, a.start, a.end, a.maxLength, order))

\* an empty range past the last key of a view, whose proof of start holds a
\* node under the root
C19_Witness ==
  \E t \in created : \E k \in Keys :
    /\ calculateNodesOnce[t] = "done"
    /\ KeysInRange(t, Some(k), Nothing) = {}
    /\ GetRangeProofResult(t, Some(k), Nothing, 1, <<>>).err = NoErr
    /\ Len(GetRangeProofResult(t, Some(k), Nothing, 1, <<>>).proof.StartProof) > 1

\* the view has a node with this key; every path starts at the root
NodeExists(t, key) ==
  key = rootKey \/ getChildren(childrenChanges, t, key).err = NoErr

IsPrefix(a, b) == Len(a) <= Len(b) /\ a = Take(b, Len(a))

\* the deepest node of the view whose key is a prefix of key
DeepestPrefixNode(t, key) ==
  CHOOSE d \in Keys :
    /\ IsPrefix(d, key) /\ NodeExists(t, d)
    /\ \A e \in Keys : (IsPrefix(e, key) /\ NodeExists(t, e)) => Len(e) <= Len(d)

\* the path of a proof of a key without a node: it ends at the deepest
\* prefix node d, followed by d's child at the key's next token if any
AbsentKeyPath(t, key, path, d, kids) ==
  IF Token(key, Len(d)) \in DOMAIN kids
  THEN /\ Len(path) >= 2
       /\ path[Len(path) - 1].key = d
       /\ path[Len(path)].key =
            Extend(d, Token(key, Len(d)), kids[Token(key, Len(d))].compressedKey)
  ELSE path[Len(path)].key = d

ProofPathShape(t, key, p) ==
  /\ Len(p.Path) >= 1
  /\ p.Path[1].key = rootKey
  /\ \A i \in 1 .. (Len(p.Path) - 1) :
       /\ Len(p.Path[i].key) < Len(p.Path[i + 1].key)
       /\ IsPrefix(p.Path[i].key, p.Path[i + 1].key)
  /\ IF NodeExists(t, key)
     THEN /\ p.Path[Len(p.Path)].key = key
          /\ p.Value = getValue(t, key).val
     ELSE /\ p.Value = Nothing
          /\ AbsentKeyPath(t, key, p.Path, DeepestPrefixNode(t, key),
               Kids(getChildren(childrenChanges, t,
                                DeepestPrefixNode(t, key)).children))

ProofPathShapeReturned(t, key, p) == p.err = NoErr => ProofPathShape(t, key, p)

\* C20: a single-key proof's Path starts at the root, each node's key a
\* strict prefix of the next; it ends at the key's node, with that node's
\* value, if the view has one; otherwise Value is Nothing and the Path ends
\* at the deepest node whose key is a prefix of the key, followed by that
\* node's child at the key's next token exactly when there is one.
C20_ProofPathShape ==
  \A t \in created : \A key \in Keys :
    calculateNodesOnce[t] = "done" =>
      ProofPathShapeReturned(t, key, getProof(childrenChanges, t, key))

\* the node edits of view t while calculateNodeIDs applies its changes: after
\* any number of them, in any order
EditsDuringCalc(t) ==
  {applyValueChanges(childrenChanges[t], t, order, 1) :
     order \in UNION {Orders(K) : K \in SUBSET DOMAIN values[t]}}

\* the keys remove may be called with: those without a value in the view
Removable(t) == {key \in Keys : getValue(t, key).val = Nothing}

\* the root ID of view t over the node edits c
RootIDOver(t, c) ==
  [h \in {calculateNodeIDsHelper(World(t, c), t, emptyKey,
                                 getValue(t, emptyKey).val)} |->
     [err |-> h.err, id |-> h.id]]

\* once is what remove(key) returned on the node edits c, twice what a second
\* remove(key) returned after it
RemovedTwice(t, c, key, once, twice) ==
  /\ getChildren(World(t, c), t, key).err = ErrNotFound => once = Edit(c, NoErr)
  /\ once.err = NoErr =>
       /\ twice.err = NoErr
       /\ twice.c = once.c
       /\ RootIDOver(t, twice.c) = RootIDOver(t, once.c)

RemovedAgain(t, c, key, once) ==
  RemovedTwice(t, c, key, once, remove(once.c, t, key))

\* C21: remove is idempotent.  Removing a key that has no node in the view
\* returns no error and leaves the node edits as they were; removing a key a
\* second time returns no error and gives the same trie and the same root ID
\* as removing it once.
C21_RemoveIdempotent ==
  \A t \in created :
    (calculateNodesOnce[t] = "new" /\ ~isInvalid(t)) =>
      \A e \in EditsDuringCalc(t) : \A key \in Removable(t) :
        e.err = NoErr => RemovedAgain(t, e.c, key, remove(e.c, t, key))

\* C24: node-ID calculation never waits for calculateNodeIDsSema.  The
\* function a first caller of calculateNodeIDs runs is never held up at the
\* semaphore, whatever the permits left.
C24_CalcNeverWaits ==
  \A t \in created : \A order \in CalcOrders(t) :
    calculateNodesOnce[t] = "new" =>
      onceBody(t, order, isInvalid(t)).err # Blocked

\* C25: the parallel child computations of calculateNodeIDsHelper share no
\* mutable state.  The err a child's closure is about to test and return is
\* the one its own call returned: an error is not replaced by a sibling's
\* success.
C25_ChildErrorKept ==
  \A key \in HashFrames : \A childIndex \in DOMAIN pc.hash.frames[key].calls :
    ( /\ pc.hash.frames[key].calls[childIndex].assigned
      /\ pc.hash.frames[key].calls[childIndex].got # NoErr ) =>
      pc.hash.frames[key].err # NoErr

\* C23: operations on different views of one DB are deadlock-free.  Under
\* fair scheduling every caller that has started a calculateNodeIDs returns,
\* also after other calls have returned errors.
C23_EveryCallReturns ==
  \A th \in LiveCallers :
    (pc.callers[th].phase \in {"body", "wait"}) ~> (pc.callers[th].phase = "done")

\* the views above v: its parentTrie, that one's parentTrie, and so on
RECURSIVE AncestorsOf(_, _)
AncestorsOf(parents, v) ==
  IF parents[v] = DB THEN {}
  ELSE {parents[v]} \cup AncestorsOf(parents, parents[v])

\* C22 (as stated): whenever a thread holds the validityTrackingLocks of two
\* views, the one it acquired first is not an ancestor of the one it acquired
\* later: it acquired no lock while holding an ancestor's
C22_NoAncestorLockHeld ==
  \A th \in Lockers : \A i, j \in DOMAIN heldBy(th) :
    i < j => heldBy(th)[i].view \notin AncestorsOf(parentTrie, heldBy(th)[j].view)

\* C22 (amended): locks are taken downwards only.  Every lock a thread
\* acquires while it holds another is acquired by invalidate, for writing, on
\* a child of the view whose lock it acquired last; so it holds neither that
\* view's own lock nor a descendant's, and isInvalid, getParentTrie,
\* getValue, updateParent and NewView hold one lock at a time
C22_LocksTakenDownwards ==
  \A th \in Lockers : \A j \in DOMAIN heldBy(th) :
    j > 1 =>
      /\ parentTrie[heldBy(th)[j].view] = heldBy(th)[j - 1].view
      /\ heldBy(th)[j].mode = "w"
      /\ heldBy(th)[j - 1].mode = "w"
      /\ \A i \in 1 .. j :
           heldBy(th)[j].view \notin AncestorsOf(parentTrie, heldBy(th)[i].view)
      /\ \A i \in 1 .. (j - 1) : heldBy(th)[i].view # heldBy(th)[j].view
      /\ Len(pc.lockers[th].stack) > j
      /\ \A i \in 1 .. j : pc.lockers[th].stack[i + 1].fn = "invalidate"

\* an invalidate holds the lock of a view and of a child of it, while the
\* other thread holds a lock too
C22_Witness ==
  \E th \in Lockers :
    /\ Len(heldBy(th)) = 2
    /\ inCall(th, "invalidate")
    /\ parentTrie[heldBy(th)[2].view] = heldBy(th)[1].view
    /\ \E o \in Lockers \ {th} : Len(heldBy(o)) = 1

\* every method call with every argument
PebbleCalls ==
  PebbleWrites
  \cup {[op |-> "HealthCheck"], [op |-> "NewIterator"]}
  \cup {[op |-> o, key |-> k] :
          o \in {"Has", "Get", "NewIteratorWithStart", "NewIteratorWithPrefix"},
          k \in PebbleKeys}
  \cup {[op |-> "Compact", start |-> st, limit |-> l] :
          st \in MaybeBytes, l \in MaybeBytes}
  \cup {[op |-> "NewIteratorWithStartAndPrefix", start |-> st, prefix |-> p] :
          st \in PebbleKeys, p \in PebbleKeys}

IteratorCalls == {"NewIterator", "NewIteratorWithStart", "NewIteratorWithPrefix",
                  "NewIteratorWithStartAndPrefix"}

\* the call c on db is refused: ErrClosed, an iterator that is closed, and
\* the engine is not called
RefusedClosed(db, c, r) ==
  /\ r.ret.err = ErrClosed
  /\ r.db.pebbleDB = db.pebbleDB
  /\ r.db.closed
  /\ c.op \in IteratorCalls => r.ret.closed /\ r.ret.keys = <<>>

\* Close on the open database db, the engine's Close returning e
ClosesWith(db, e, r) ==
  /\ r.db.closed
  /\ e = ErrLeakedIterators => r.ret.err = NoErr
  /\ e = NoErr => r.ret.err = NoErr

\* C26: once Close has returned, every Get, Has, Put, Delete, Compact,
\* HealthCheck and Close returns ErrClosed, every new iterator is closed with
\* the error ErrClosed, and no call reaches the engine (the last call, and
\* every call that can follow a Close: a refused call leaves the database
\* as it is); a Close of the open database sets closed
\* whatever the engine's Close returns, and returns nil when the engine
\* reports leaked iterators
C26_ClosedDatabase ==
  /\ pc.pebble.closed =>
        /\ pc.pebble.ret.call.op = "Close" =>
              \A c \in PebbleCalls :
                RefusedClosed(pc.pebble, c, pebbleCall(pc.pebble, c))
        /\ pc.pebble.pebbleDB.closed
        /\ pc.pebble.pebbleDB.last.op = "Close"
        /\ pc.pebble.ret.call.op # "Close" =>
              /\ pc.pebble.ret.err = ErrClosed
              /\ pc.pebble.ret.op \in IteratorCalls => pc.pebble.ret.closed
  /\ ~pc.pebble.closed =>
        \A e \in EngineCloseErrors :
          ClosesWith(pc.pebble, e, Close(pc.pebble, e))
  /\ (pc.pebble.ret # Idle /\ pc.pebble.ret.call \in
         {[op |-> "Close", engineErr |-> ErrLeakedIterators]}) =>
        pc.pebble.closed /\ pc.pebble.ret.err \in {NoErr, ErrClosed}

\* a database with a key was closed, the engine reporting leaked iterators,
\* and the Close returned nil; a later call made an iterator that is closed
C26_Witness ==
  /\ pc.pebble.closed
  /\ pc.pebble.pebbleDB.data # <<>>
  /\ pc.pebble.pebbleDB.calls = 2
  /\ pc.pebble.ops = 4
  /\ pc.pebble.ret.op = "NewIteratorWithPrefix"
  /\ pc.pebble.ret.closed
  /\ pc.pebble.ret.err = ErrClosed

\* the open database holds a key other than the empty one
HasGreatestKey(db) == ~db.closed /\ lastKey(db.pebbleDB) # Nothing

\* Compact returned nil without a call of the engine
CompactNoOp(db, r) ==
  /\ r.ret.err = NoErr
  /\ r.db.pebbleDB = db.pebbleDB

\* Compact returned nil and the database holds what it held: nothing
CompactOfNothing(db, r) ==
  /\ r.ret.err = NoErr
  /\ r.db.pebbleDB.data = <<>>

\* Compact compacted from start through the greatest key
CompactThroughLast(db, start, r) ==
  /\ r.ret.err = NoErr
  /\ r.db.pebbleDB.last = [op |-> "Compact", start |-> bytesOf(start),
                           limit |-> lastKey(db.pebbleDB)[1]]

\* C27: on an open database, Compact(start, nil) has the engine compact
\* from start through the greatest key (where the database has a key other
\* than the empty key), and Compact with start >= limit, limit not nil, or
\* on a database without keys is a no-op that returns nil
C27_CompactRange ==
  ~pc.pebble.closed =>
    \A start \in MaybeBytes, limit \in MaybeBytes :
      /\ (limit = Nothing /\ HasGreatestKey(pc.pebble)
            /\ Compare(bytesOf(start), lastKey(pc.pebble.pebbleDB)[1]) < 0) =>
           CompactThroughLast(pc.pebble, start, Compact(pc.pebble, start, limit))
      /\ (limit # Nothing /\ Compare(bytesOf(start), bytesOf(limit)) >= 0) =>
           CompactNoOp(pc.pebble, Compact(pc.pebble, start, limit))
      /\ pc.pebble.pebbleDB.data = <<>> =>
           CompactOfNothing(pc.pebble, Compact(pc.pebble, start, limit))

HasBytePrefix(k, prefix) ==
  Len(k) >= Len(prefix) /\ \A i \in 1 .. Len(prefix) : k[i] = prefix[i]

\* the database is new or its last call was a Put or a Delete
JustWritten ==
  pc.pebble.ret = Idle \/ pc.pebble.ret.op \in {"Put", "Delete"}

\* the sequence holds exactly the keys of S, each once, in ascending order
AscendingOver(keys, S) ==
  /\ {keys[i] : i \in DOMAIN keys} = S
  /\ \A i, j \in DOMAIN keys : i < j => Compare(keys[i], keys[j]) = -1

\* C28: on an open database, the iterator of
\* NewIteratorWithStartAndPrefix(start, prefix) yields exactly the keys that
\* have the prefix and are >= start, ascending, and the iterator of
\* NewIteratorWithPrefix(prefix) the keys that have the prefix, for every
\* start and prefix (the empty prefix and prefixes ending in 0xff among
\* them), over every content of the database (the states after a write);
\* so did the last call
C28_PrefixIterator ==
  ~pc.pebble.closed =>
    /\ JustWritten =>
       \A start \in PebbleKeys, prefix \in PebbleKeys :
         /\ AscendingOver(
              NewIteratorWithStartAndPrefix(pc.pebble, start, prefix).ret.keys,
              {k \in DOMAIN pc.pebble.pebbleDB.data :
                 HasBytePrefix(k, prefix) /\ Compare(k, start) >= 0})
         /\ AscendingOver(
              NewIteratorWithPrefix(pc.pebble, prefix).ret.keys,
              {k \in DOMAIN pc.pebble.pebbleDB.data : HasBytePrefix(k, prefix)})
    /\ (pc.pebble.ret # Idle
        /\ pc.pebble.ret.op = "NewIteratorWithStartAndPrefix") =>
         AscendingOver(
           pc.pebble.ret.keys,
           {k \in DOMAIN pc.pebble.pebbleDB.data :
              /\ HasBytePrefix(k, pc.pebble.ret.call.prefix)
              /\ Compare(k, pc.pebble.ret.call.start) >= 0})

\* an iterator with the prefix 0xff and a start behind it was made over a
\* database with a key before the start, a key in the range and a key
\* without the prefix, and yields the one key of the range
C28_Witness ==
  /\ ~pc.pebble.closed
  /\ pc.pebble.ret # Idle
  /\ pc.pebble.ret.op = "NewIteratorWithStartAndPrefix"
  /\ pc.pebble.ret.call.prefix = <<255>>
  /\ pc.pebble.ret.call.start = <<255, 1>>
  /\ DOMAIN pc.pebble.pebbleDB.data = {<<255, 0>>, <<255, 255>>, <<1>>}
  /\ pc.pebble.ret.keys = <<(<<255, 255>>)>>

\* C29: two paths are Equal iff their nibble lengths and their nibbles are
\* equal, whatever the low 4 bits of the last byte of a path of odd length
\* are: so for the two paths at hand, and so the last Equal returned
C29_EqualByNibbles ==
  /\ Equal(pc.paths.s, pc.paths.other) <=>
       (/\ pc.paths.s.NibbleLength = pc.paths.other.NibbleLength
        /\ Deserialize(pc.paths.s) = Deserialize(pc.paths.other))
  /\ pc.paths.ret # Nothing =>
       (pc.paths.ret[1] <=> Deserialize(pc.paths.s) = Deserialize(pc.paths.other))

\* the keys of the nodes that the child tables lead to from the node at key,
\* in view t over the node edits cc
RECURSIVE ReachableFrom(_, _, _)
ReachableFrom(cc, t, key) ==
  {key} \cup
  UNION {ReachableFrom(cc, t,
                       Extend(key, tok,
                              Kids(getChildren(cc, t, key).children)[tok]
                                .compressedKey)) :
           tok \in DOMAIN Kids(getChildren(cc, t, key).children)}

\* the walk to key stopped at node last, which has a child at key's next
\* token: key leaves the path inside that child's compressed key
StopsMidEdge(key, walk, last) ==
  /\ walk.err = NoErr
  /\ last.key # key
  /\ Token(key, Len(last.key)) \in DOMAIN Kids(last.children)

\* after: the node edits after insert(key); existing: the child entry the
\* walk stopped at, of the node at closestKey; branchLen: the length of the
\* longest common prefix of key and the existing child's key
BranchHolds(t, after, key, closestKey, existing, branchLen) ==
  LET existingKey == Extend(closestKey, Token(key, Len(closestKey)),
                            existing.compressedKey)
      kids == Kids(getChildren(after, t, Take(key, branchLen)).children)
  IN /\ Token(existingKey, branchLen) \in DOMAIN kids
     /\ kids[Token(existingKey, branchLen)].compressedKey
          = Skip(existingKey, branchLen + 1)
     /\ kids[Token(existingKey, branchLen)].id = existing.id
     /\ Len(key) > branchLen =>
          /\ Token(key, branchLen) \in DOMAIN kids
          /\ kids[Token(key, branchLen)].compressedKey = Skip(key, branchLen + 1)
     /\ getChildren(after, t, key).err = NoErr

InsertedMidEdge(t, c, key, last, r) ==
  r.err = NoErr =>
    /\ BranchHolds(t, World(t, r.c), key, last.key,
                   Kids(last.children)[Token(key, Len(last.key))],
                   Len(last.key) + 1
                     + getLengthOfCommonPrefix(
                         Kids(last.children)[Token(key, Len(last.key))]
                           .compressedKey,
                         key, Len(last.key) + 1))
    /\ ReachableFrom(World(t, c), t, emptyKey)
         \subseteq ReachableFrom(World(t, r.c), t, emptyKey)

InsertAfterWalk(t, c, key, walk) ==
  StopsMidEdge(key, walk, walk.path[Len(walk.path)]) =>
    InsertedMidEdge(t, c, key, walk.path[Len(walk.path)], insert(c, t, key))

\* the keys calculateNodeIDs calls insert with: those the view gives a value
Inserted(t) == {key \in DOMAIN values[t] : values[t][key].after # Nothing}

\* C31: insert of a key that leaves the path inside the compressed key of an
\* existing child.  The node at the longest common prefix holds the existing
\* child under its token, with the rest of its compressed key and its old
\* id, and (where the key is longer than the prefix) the new leaf; the node
\* of the key exists; every node reachable before is reachable after.
C31_InsertMidEdge ==
  \A t \in created :
    (calculateNodesOnce[t] = "new" /\ ~isInvalid(t)) =>
      \A e \in EditsDuringCalc(t) : \A key \in Inserted(t) :
        e.err = NoErr =>
          InsertAfterWalk(t, e.c, key, visitPathToKey(World(t, e.c), t, key))


\* r is what insert(key) returned on the node edits c: every other node that
\* exists before and after has kept the child entries it had
KeepsEntries(t, c, r, key) ==
  r.err = NoErr =>
    \A k \in Keys \ {key} :
      (/\ getChildren(World(t, c), t, k).err = NoErr
       /\ getChildren(World(t, r.c), t, k).err = NoErr) =>
        DOMAIN Kids(getChildren(World(t, c), t, k).children)
          \subseteq DOMAIN Kids(getChildren(World(t, r.c), t, k).children)

\* C32: every key with a value is the key of a node reachable from the root.
\* In a view whose node IDs have been calculated, every key that has a value
\* in the view, set by the view or inherited from its parent trie, is the key
\* of a node that the walk from the root through the child entries reaches;
\* and an insert of one key drops no child entry of another node, the
\* entries a node first touched in this view has in the parent included.
C32_ValuesReachable ==
  /\ \A t \in Views : Calculated(t) =>
       \A key \in Keys :
         ExpectedValue(t, key) # Nothing => key \in NodesBelow(t, emptyKey)
  /\ \A t \in created :
       (calculateNodesOnce[t] = "new" /\ ~isInvalid(t)) =>
         \A e \in EditsDuringCalc(t) : \A key \in Inserted(t) :
           e.err = NoErr => KeepsEntries(t, e.c, insert(e.c, t, key), key)


\* the child entries of the node at key in the node edits cc carry the ids of
\* the nodes they name: none is the stale id, and each is the id of the
\* child's key, value and child table as view t reads them
FreshIDs(cc, t, key, kids) ==
  \A tok \in DOMAIN kids :
    LET childKey == Extend(key, tok, kids[tok].compressedKey)
    IN /\ kids[tok].id # Empty
       /\ getChildren(cc, t, childKey).err = NoErr =>
            kids[tok].id = calculateID(childKey,
                                       getChildren(cc, t, childKey).children,
                                       getValue(t, childKey).val)

\* r is what calculateNodeIDs returned on view t
CalculatedFresh(t, r) ==
  r.err = NoErr =>
    \A key \in ReachableFrom(r.cc, t, emptyKey) :
      FreshIDs(r.cc, t, key, Kids(getChildren(r.cc, t, key).children))

\* C33: no stale child id after the calculation.  When calculateNodeIDs has
\* returned without error on a view, no child entry reachable from the root
\* holds the stale id Empty, and every stored child id is the id computed
\* from that child's key, value and child table.
C33_NoStaleChildID ==
  \A t \in created :
    (calculateNodesOnce[t] = "new" /\ ~isInvalid(t)) =>
      \A order \in CalcOrders(t) : CalculatedFresh(t, calculateNodeIDs(t, order))


\* C34: the permits of calculateNodeIDsSema are conserved.  While no
\* calculateNodeIDs is running every permit is free: each call has released,
\* on whichever path it returned, the permit it acquired.
C34_PermitsConserved ==
  (\A t \in Views : calculateNodesOnce[t] # "running") => sema = NumCPU


\* C35: a failed calculation stays failed.  Once a call of calculateNodeIDs
\* has run the calculation of a view and returned an error, every later call
\* of calculateNodeIDs on that view returns an error too (and with it
\* GetMerkleRoot, GetProof, NewView and CommitToDB, which start with it).
C35_FailureSticks ==
  \A th \in Callers :
    (/\ pc.callers[th].phase = "done"
     /\ pc.callers[th].ran
     /\ pc.callers[th].err # NoErr) =>
      \A order \in CalcOrders(pc.callers[th].view) :
        calculateNodeIDs(pc.callers[th].view, order).err # NoErr


\* C36: the root node always exists.  In every view that can be read the
\* node of the empty key exists: the view's entry for it is never the mark
\* of a deleted node, and getChildren(emptyKey) finds it.
C36_RootExists ==
  \A t \in created : ~isInvalid(t) =>
    /\ emptyKey \in DOMAIN childrenChanges[t] => ~IsNil(childrenChanges[t][emptyKey])
    /\ getChildren(childrenChanges, t, emptyKey).err = NoErr


\* the value of the last operation of the batch on key
LastWrite(ops, key) ==
  ops[CHOOSE i \in DOMAIN ops :
        /\ ops[i].Key = key
        /\ \A j \in DOMAIN ops : ops[j].Key = key => j <= i].Value

\* r is what recording the batch ops in a new view over parent returned
LastWrites(parent, ops, r) ==
  r.err = NoErr =>
    /\ DOMAIN r.vals = {ops[i].Key : i \in DOMAIN ops}
    /\ \A key \in DOMAIN r.vals :
         /\ r.vals[key].after = LastWrite(ops, key)
         /\ r.vals[key].before = ExpectedValue(parent, key)

\* the root IDs calculateNodeIDs can leave in view t
RootIDsOf(t) ==
  {calculateNodeIDs(t, order).rootID :
     order \in {o \in CalcOrders(t) : calculateNodeIDs(t, o).err = NoErr}}

\* C37: value changes collapse to last-write-wins.  Recording a batch leaves,
\* for each of its keys, one change whose after is the last value recorded
\* for the key and whose before is the parent's value of the key; and the
\* root ID of the view depends on those (key, last value) pairs only: views
\* over the same parent with the same pairs have one and the same root ID.
C37_LastWriteWins ==
  /\ \A parent \in {DB} \cup {t \in created : ~isInvalid(t)} :
       \A ops \in Batches(Keys, MaxBatchLen) :
         LastWrites(parent, ops, recordBatch(<<>>, parent, ops, 1))
  /\ \A t1, t2 \in created :
       (/\ parentTrie[t1] = parentTrie[t2]
        /\ FinalValues(t1) = FinalValues(t2)
        /\ calculateNodesOnce[t1] = "new" /\ ~isInvalid(t1)
        /\ calculateNodesOnce[t2] = "new" /\ ~isInvalid(t2)) =>
         Cardinality(RootIDsOf(t1) \cup RootIDsOf(t2)) <= 1


\* the nibbles of prefix are the first nibbles of s
NibblePrefix(s, prefix) ==
  /\ prefix.NibbleLength <= s.NibbleLength
  /\ \A i \in 0 .. prefix.NibbleLength - 1 : NibbleVal(s, i) = NibbleVal(prefix, i)

\* C38: s.HasPrefix(prefix) is true iff the nibbles of prefix are an initial
\* segment of the nibbles of s (or all of them), for paths of even and of odd
\* length, and s.HasStrictPrefix(prefix) iff in addition the two nibble
\* sequences differ: so for the two paths at hand, and so what the last call
\* returned.
C38_HasPrefixByNibbles ==
  /\ HasPrefix(pc.paths.s, pc.paths.other) <=> NibblePrefix(pc.paths.s, pc.paths.other)
  /\ HasStrictPrefix(pc.paths.s, pc.paths.other) <=>
       (/\ NibblePrefix(pc.paths.s, pc.paths.other)
        /\ Deserialize(pc.paths.s) # Deserialize(pc.paths.other))
  /\ (pc.paths.has # Nothing /\ pc.paths.has.op = "HasPrefix") =>
       (pc.paths.has.val <=> NibblePrefix(pc.paths.s, pc.paths.other))
  /\ (pc.paths.has # Nothing /\ pc.paths.has.op = "HasStrictPrefix") =>
       (pc.paths.has.val <=>
          (/\ NibblePrefix(pc.paths.s, pc.paths.other)
           /\ Deserialize(pc.paths.s) # Deserialize(pc.paths.other)))


\* p is the path built from the empty path by AppendNibble of the nibbles ns
AppendedAll(p, ns) ==
  /\ p.NibbleLength = Len(ns)
  /\ Len(p.Value) = (Len(ns) + 1) \div 2
  /\ \A i \in 0 .. Len(ns) - 1 : NibbleVal(p, i) = ns[i + 1]
  /\ Len(ns) % 2 = 1 => p.Value[Len(p.Value)] % 16 = 0
  /\ Len(Deserialize(p)) = Len(ns)
  /\ Deserialize(p) = ns
  /\ \A nibble \in AppendNibbles : AppendNibbleReceiver(p, nibble) = p

InvalidateOver(v) ==
  \A th \in Lockers :
    pc.lockers[th] # Idle =>
      \A i \in DOMAIN pc.lockers[th].stack :
        ~(pc.lockers[th].stack[i].fn = "invalidate"
          /\ pc.lockers[th].stack[i].view = v)

\* once invalidate has returned on a view, every view NewView returned on it
\* is invalidated: no valid view has an invalidated parent view
NoValidChildOfInvalid ==
  \A c \in created :
    (/\ parentTrie[c] # DB
     /\ invalidated[parentTrie[c]]
     /\ InvalidateOver(parentTrie[c])) => invalidated[c]

\* thread th returns from NewView in this step, having held the lock
NewViewReturns(th) ==
  /\ inCall(th, "NewView")
  /\ topFrame(th).at = "locked"
  /\ pc'.lockers[th] = Idle

\* NewView on view v returns in this step: with ErrInvalid and nothing
\* registered when v is invalidated, and else with the new view appended to
\* v's child list, v not invalidated
RegisteredWhileValid(v) ==
  IF invalidated[v]
  THEN created' = created /\ childViews' = childViews /\ parentTrie' = parentTrie
  ELSE /\ created' = created \cup {NextView}
       /\ childViews'[v] = Append(childViews[v], NextView)
       /\ parentTrie'[NextView] = v
       /\ ~invalidated'[v]
       /\ ~invalidated'[NextView]

\* C40: NewView against invalidate.  However the steps of NewView and of
\* invalidate on a view interleave, NewView returns a view only when it has
\* appended it to the child list of the view while the view was not
\* invalidated, and returns ErrInvalid registering nothing otherwise; and
\* once invalidate has returned on a view every view its NewView returned is
\* invalidated, so that no valid view has an invalidated parent view.
C40_NewViewAgainstInvalidate ==
  /\ []NoValidChildOfInvalid
  /\ [][\A th \in Lockers :
          NewViewReturns(th) => RegisteredWhileValid(topFrame(th).view)]_vars

\* a NewView that has taken the lock of a view on which invalidate ran and
\* returned after the call's entry check
C40_Witness ==
  \E th \in Lockers :
    /\ inCall(th, "NewView")
    /\ topFrame(th).at = "locked"
    /\ invalidated[topFrame(th).view]
    /\ InvalidateOver(topFrame(th).view)
====
